---- MODULE Spec2Model ----
(***************************************************************************)
(* Model of the claude-memory daemon: the watcher (debounce timers, the    *)
(* per-project single-flight slot, startup catch-up), the processing cycle *)
(* (processFile), the cursor store (state.js), the append path             *)
(* (appendObservations) and the compaction path (runReflector) with their  *)
(* lock marker.                                                            *)
(*                                                                         *)
(* Execution model.  The daemon is one Node.js process: a handler runs to  *)
(* completion, and another handler (a timer callback, a watcher event) can *)
(* start only when the running one has returned or is suspended on a real  *)
(* timer.  The only such suspension inside a cycle is the lock-retry wait  *)
(* of appendObservations; `await` on an already settled promise only       *)
(* yields to the microtask queue.  The variable `running` names the        *)
(* handler that owns the event loop; a synchronous run is split into       *)
(* several steps so that its intermediate states are visible and so that   *)
(* the environment (the sessions writing log files, a user removing a      *)
(* stale marker) can act between them.  Time is counted in milliseconds    *)
(* on the timers; a handler takes no time.                                 *)
(***************************************************************************)
EXTENDS Integers, Sequences, FiniteSets, TLC

(* ------------------------------------------------------------------ *)
(* Program constants                                                   *)
(* ------------------------------------------------------------------ *)
DEBOUNCE_MS == 5 * 60 * 1000
LOCK_RETRY_DELAY_MS == 5000
LOCK_MAX_RETRIES == 12
MIN_FILE_SIZE_BYTES == 1024
DEFAULT_REFLECTOR_THRESHOLD == 20000
MAX_CATCHUP_FILES == 10
\* processFile: text.trim().length < 100
MIN_TEXT_CHARS == 100
\* runReflector: consolidated.length < 50
MIN_CONSOLIDATED_CHARS == 50
MAX_TOOL_RESULT_CHARS == 500

(* ------------------------------------------------------------------ *)
(* Bounds of the model                                                 *)
(* ------------------------------------------------------------------ *)
\* how many log files the environment truncates, replaces or deletes
\* (appends are bounded by SizeSet)
MaxShrinks == 1
\* how many times a user touches the artifact or the marker
MaxMeddle == 1
\* the environment acts during a lock wait only before this many of its
\* retries have passed
MaxEnvPhase == 1
\* the longest delta whose entries are chosen freely
MaxEntries == 3
\* the most rounds of call and result in a delta of retries
MaxAttempts == 3

(* ------------------------------------------------------------------ *)
(* The world: projects, their log files, the inputs                    *)
(* ------------------------------------------------------------------ *)
Projects == {"p1", "p2"}
Files == {"a", "b", "c"}
ProjectOf(f) == IF f \in {"a", "b"} THEN "p1" ELSE "p2"
FilesOf(p) == {f \in Files : ProjectOf(f) = p}

\* byte sizes a log file takes: below, at and above the minimum
SizeSet == {512, 1024, 2048}

\* project.reflectorThreshold as registered in projects.json; 0 stands for
\* a missing (falsy) value
reflectorThreshold(p) == IF p = "p1" THEN 1000 ELSE 0
\* project.skipCatchup
skipCatchup(p) == p = "p2"

\* what the extraction pass returns for a delta: null (failure, empty
\* output or the NO_OBSERVATIONS sentinel) or a text
NullObs == "null"
\* what the extraction pass does with a delta: it fails (nonzero exit,
\* timeout), or prints nothing, the sentinel, or a text
PassOutcomes == {"fails", "empty", "sentinel", "text"}
\* the value runObserver returns: the catch block and the sentinel give
\* null, anything else is returned trimmed
runObserver(outcome) ==
    CASE outcome = "fails" -> NullObs
      [] outcome = "sentinel" -> NullObs
      [] outcome = "empty" -> ""
      [] OTHER -> "obs"
\* variant: only null is falsy
Truthy_nonNull(o) == o # NullObs
\* `if (observations)`, `observations ? 1 : 0`: null and '' are falsy
Truthy(o) == o \notin {NullObs, ""}
\* the length of an observations text: with it the top header and one
\* section are exactly 4 * reflectorThreshold("p1") bytes
ObsBytes(o) == 3941

\* length of text.trim() of the rendering of a delta that was read
TextLens == {99, 100}

\* what the compaction pass does: throw (nonzero exit, timeout), or
\* return a text of some trimmed length
ReflectOutcomes == {"throws", "short", "ok"}
ConsolidatedLen(r) == IF r = "short" THEN 49 ELSE 2000

(* ------------------------------------------------------------------ *)
(* The artifact (OBSERVATIONS.md): absent, or a sequence of chunks     *)
(* ------------------------------------------------------------------ *)
Absent == <<"absent">>
\* the line '# Observations'
TopHeader == "H"
\* a dated section header followed by the observations and a newline
Section(o) == "S"
\* the consolidated text written by a successful compaction
Consolidated == "R"
TopHeaderBytes == 15
SectionHeaderBytes == 43
ChunkBytes(c) ==
    CASE c = TopHeader -> TopHeaderBytes
      [] c = "S" -> SectionHeaderBytes + ObsBytes("obs") + 1
      [] c = Consolidated -> ConsolidatedLen("ok") + 1
      [] c = "r" -> ConsolidatedLen("short") + 1
      [] OTHER -> 0
RECURSIVE SeqBytes(_)
SeqBytes(s) == IF s = <<>> THEN 0 ELSE ChunkBytes(Head(s)) + SeqBytes(Tail(s))

(* ------------------------------------------------------------------ *)
(* State                                                               *)
(* ------------------------------------------------------------------ *)
VARIABLES
    registered,       \* the projects in projects.json
    fileSize,         \* log files on disk: existing file -> size in bytes
    dirty,            \* file -> the watcher holds an undelivered change event
    timeouts,         \* the pending setTimeout calls of debounceFile
    debounceTimers,   \* Map path -> handle of its timeout (its remaining ms)
    processingQueue,  \* Map project -> boolean, the single-flight slot
    activeWatchers,   \* project -> a file watcher is registered
    catchup,          \* project -> progress of its startup catch-up
    cycles,           \* the processFile invocations in flight
    running,          \* the handler that owns the event loop
    stateFile,        \* project -> content of observer-state.json
    artifact,         \* project -> content of OBSERVATIONS.md
    lock,             \* project -> the lock marker exists
    truncated,        \* the log files truncated, replaced or deleted so far
    meddles,          \* how often a user touched artifact or marker
    seal,             \* the `claude-memory seal` process, if one was started
    projectDirs,      \* the projects whose directory (project.path) exists
    configWatcher,    \* the watcher on projects.json: "none", "idle", "changed"
    claudeDirs,       \* the projects whose log directory exists
    entries,          \* the decoded entries of the delta being rendered
    idx,              \* the walk index of formatWithChainDetection, from 1
    parts,            \* the lines rendered so far
    \* history, kept for the properties only
    burst,            \* path with an unanswered notification -> its burst
    lastRead,         \* path -> the byte range the last cycle read from it
    consumed,         \* path -> end of the last range read by a cycle that saved
    missed,           \* files notified while their project's slot was held,
                      \* and for which no cycle was admitted since
    walked,           \* the iterations of the walk: start, chain, lines
    raw               \* the lines parseConversationDelta has read, and its return

watchVars == <<dirty, timeouts, debounceTimers, burst>>
hotVars == <<configWatcher, claudeDirs>>
envVars == <<registered, fileSize, truncated, meddles, seal, projectDirs, hotVars>>
histVars == <<lastRead, consumed, missed>>
parserVars == <<entries, idx, parts, walked, raw>>
vars == <<registered, fileSize, dirty, timeouts, debounceTimers,
          processingQueue, activeWatchers, catchup, cycles, running,
          stateFile, artifact, lock, truncated, meddles, seal, burst,
          lastRead, consumed, missed, entries, idx, parts, walked,
          projectDirs, configWatcher, claudeDirs, raw>>

(* finite maps with a changing key set *)
Put(m, k, v) == [x \in (DOMAIN m) \cup {k} |-> IF x = k THEN v ELSE m[x]]
Del(m, k) == [x \in (DOMAIN m) \ {k} |-> m[x]]
EmptyMap == [x \in {} |-> 0]

Min(S) == CHOOSE x \in S : \A y \in S : x <= y

RECURSIVE Perms(_)
Perms(S) ==
    IF S = {} THEN {<<>>}
    ELSE UNION {{<<x>> \o q : q \in Perms(S \ {x})} : x \in S}

Take(s, n) == IF Len(s) <= n THEN s ELSE SubSeq(s, 1, n)

(* ------------------------------------------------------------------ *)
(* state.js: the cursor store                                          *)
(* ------------------------------------------------------------------ *)
DefaultState ==
    [files |-> EmptyMap, lastReflection |-> 0,
     totalObserverPasses |-> 0, totalReflectorPasses |-> 0]

\* the file's content, or the default record when it cannot be read
loadState(p) == stateFile[p]

\* new Date(): time stamps are kept logically, a stamp taken after the
\* stamp `before` was taken is later than it
Now(before) == before + 1

\* variant: the stored offset is ignored, every read starts at 0
getFileOffset_zero(state, filename) == 0

getFileOffset(state, filename) ==
    IF filename \in DOMAIN state.files THEN state.files[filename].offset ELSE 0

updateFileOffset(state, filename, offset, observationCount) ==
    LET tracked == filename \in DOMAIN state.files
        old == IF tracked THEN state.files[filename].observationCount ELSE 0
    IN [state EXCEPT !.files =
          Put(state.files, filename,
              [offset |-> offset,
               lastProcessed |-> Now(IF tracked THEN state.files[filename].lastProcessed
                                     ELSE 0),
               observationCount |-> old + observationCount])]

(* ------------------------------------------------------------------ *)
(* The event loop token                                                *)
(* ------------------------------------------------------------------ *)
Idle == [kind |-> "idle", id |-> 0, proj |-> "none"]
CycleTok(c) == [kind |-> "cycle", id |-> c.id, proj |-> ProjectOf(c.file)]
CatchupTok(p) == [kind |-> "catchup", id |-> 0, proj |-> p]

ActiveCycles(p) == {c \in cycles : ProjectOf(c.file) = p}

\* no seal command was started
NoSeal == [pc |-> "idle", proj |-> "none", state |-> DefaultState]

(* ------------------------------------------------------------------ *)
(* Init: the daemon has just started (daemonMain -> startWatching).     *)
(* A registered project is initialised (init wrote the top header into *)
(* OBSERVATIONS.md); nothing has been processed.  A marker left behind *)
(* by a daemon that was killed during a compaction may be present.     *)
(* ------------------------------------------------------------------ *)
\* no delta is being rendered
\* no call of parseConversationDelta is followed line by line
NoRaw == [pc |-> "none", lines |-> <<>>, fromOffset |-> 0, size |-> 0, newOffset |-> 0]
NoDelta == entries = <<>> /\ idx = 1 /\ parts = <<>> /\ walked = <<>> /\ raw = NoRaw

Init ==
    /\ registered = {"p1"}
    /\ fileSize = [f \in Files |-> IF f = "a" THEN 1024 ELSE 512]
    /\ dirty = [f \in Files |-> FALSE]
    /\ timeouts = {}
    /\ debounceTimers = EmptyMap
    /\ processingQueue = [p \in Projects |-> FALSE]
    /\ activeWatchers = [p \in Projects |-> FALSE]
    /\ catchup = [p \in Projects |-> [pc |-> "pending", queue |-> <<>>]]
    /\ cycles = {}
    /\ running = Idle
    /\ stateFile = [p \in Projects |-> DefaultState]
    /\ artifact = [p \in Projects |-> <<TopHeader>>]
    /\ lock \in {l \in [Projects -> BOOLEAN] : \A p \in Projects : l[p] => p \in registered}
    /\ truncated = {}
    /\ meddles = 0
    /\ seal = NoSeal
    /\ projectDirs = Projects
    /\ configWatcher = "idle"
    /\ claudeDirs = Projects
    /\ burst = EmptyMap
    /\ lastRead = EmptyMap
    /\ consumed = EmptyMap
    /\ missed = {}
    /\ NoDelta

(* ------------------------------------------------------------------ *)
(* Environment: the sessions that write the log files, and a user      *)
(* ------------------------------------------------------------------ *)
\* the instants at which the model lets the environment act
EnvMayAct ==
    \A c \in cycles : c.pc \in {"lockwait", "append"} => c.retries < MaxEnvPhase

\* a change event is recorded only by a registered watcher
Touched(f) == [dirty EXCEPT ![f] = @ \/ activeWatchers[ProjectOf(f)]]

\* a session appends to its log; a log that was truncated or replaced is
\* not written again
FileAppend(f) ==
    /\ f \in DOMAIN fileSize
    /\ ProjectOf(f) \in registered
    /\ f \notin truncated
    /\ \E s \in SizeSet :
         /\ s > fileSize[f]
         /\ fileSize' = [fileSize EXCEPT ![f] = s]
    /\ dirty' = Touched(f)
    /\ UNCHANGED <<parserVars, hotVars, projectDirs, seal, registered, truncated, meddles, timeouts, debounceTimers, burst,
                   processingQueue, activeWatchers, catchup, cycles, running,
                   stateFile, artifact, lock, histVars>>

\* the file is truncated, or replaced by a shorter one
FileTruncate(f) ==
    /\ Cardinality(truncated) < MaxShrinks
    /\ f \in DOMAIN fileSize
    /\ ProjectOf(f) \in registered
    /\ \E s \in SizeSet :
         /\ s < fileSize[f]
         /\ fileSize' = [fileSize EXCEPT ![f] = s]
    /\ dirty' = Touched(f)
    /\ truncated' = truncated \cup {f}
    /\ UNCHANGED <<parserVars, hotVars, projectDirs, seal, registered, meddles, timeouts, debounceTimers, burst,
                   processingQueue, activeWatchers, catchup, cycles, running,
                   stateFile, artifact, lock, histVars>>

FileDelete(f) ==
    /\ Cardinality(truncated) < MaxShrinks
    /\ f \in DOMAIN fileSize
    /\ ProjectOf(f) \in registered
    /\ fileSize' = Del(fileSize, f)
    /\ truncated' = truncated \cup {f}
    /\ UNCHANGED <<parserVars, hotVars, projectDirs, seal, registered, meddles, watchVars,
                   processingQueue, activeWatchers, catchup, cycles, running,
                   stateFile, artifact, lock, histVars>>

\* a compaction in progress: between the creation of the marker by
\* runReflector and its removal
Compacting(p) ==
    \E c \in ActiveCycles(p) : c.pc \in {"reflect", "release"}

\* a user removes a marker that no running compaction owns
EnvRemoveLock(p) ==
    /\ meddles < MaxMeddle
    /\ lock[p]
    /\ ~Compacting(p)
    /\ lock' = [lock EXCEPT ![p] = FALSE]
    /\ meddles' = meddles + 1
    /\ UNCHANGED <<parserVars, hotVars, projectDirs, seal, registered, fileSize, truncated, watchVars,
                   processingQueue, activeWatchers, catchup, cycles, running,
                   stateFile, artifact, histVars>>

\* a user empties OBSERVATIONS.md
EnvClearArtifact(p) ==
    /\ meddles < MaxMeddle
    /\ p \in registered
    /\ artifact[p] # Absent
    /\ artifact[p] # <<>>
    /\ artifact' = [artifact EXCEPT ![p] = <<>>]
    /\ meddles' = meddles + 1
    /\ UNCHANGED <<parserVars, hotVars, projectDirs, seal, registered, fileSize, truncated, watchVars,
                   processingQueue, activeWatchers, catchup, cycles, running,
                   stateFile, lock, histVars>>

(* ------------------------------------------------------------------ *)
(* watcher.js: debounceFile                                            *)
(* ------------------------------------------------------------------ *)
Timeout(f, ms) == [path |-> f, remaining |-> ms]

\* variant: the pending timeout of the path is not cancelled
ClearTimeout_skipped(f) == timeouts

\* if (debounceTimers.has(key)) clearTimeout(debounceTimers.get(key))
ClearTimeout(f) ==
    IF f \in DOMAIN debounceTimers
    THEN timeouts \ {Timeout(f, debounceTimers[f])}
    ELSE timeouts

\* the record of a burst: time since its last notification, number of
\* its notifications (2 stands for two or more), size of the file at
\* its first notification
NoBurst == [since |-> 0, count |-> 0, firstSize |-> 0]
SizeOf(f) == IF f \in DOMAIN fileSize THEN fileSize[f] ELSE 0
Notified(f) ==
    IF f \in DOMAIN burst
    THEN Put(burst, f, [burst[f] EXCEPT !.since = 0, !.count = 2])
    ELSE Put(burst, f, [since |-> 0, count |-> 1, firstSize |-> SizeOf(f)])

\* debounceFile(f), called by the watcher's 'change' / 'add' event for f
debounceFile(f) ==
    /\ running = Idle
    /\ activeWatchers[ProjectOf(f)]
    /\ dirty[f]
    /\ dirty' = [dirty EXCEPT ![f] = FALSE]
    /\ timeouts' = ClearTimeout(f) \cup {Timeout(f, DEBOUNCE_MS)}
    /\ debounceTimers' = Put(debounceTimers, f, DEBOUNCE_MS)
    /\ burst' = Notified(f)
    /\ missed' = IF processingQueue[ProjectOf(f)] THEN missed \cup {f} ELSE missed
    /\ UNCHANGED <<parserVars, envVars, processingQueue, activeWatchers, catchup, cycles,
                   running, stateFile, artifact, lock, lastRead, consumed>>

(* ------------------------------------------------------------------ *)
(* Time.  A timer is due when its remaining time is 0; time does not   *)
(* pass while a handler runs, while a due timer has not fired or while *)
(* the watcher holds an event it has not delivered.                    *)
(* ------------------------------------------------------------------ *)
LockWaits == {c \in cycles : c.pc = "lockwait"}
Remaining == {t.remaining : t \in timeouts} \cup {c.wait : c \in LockWaits}

Tick ==
    /\ running = Idle
    /\ Remaining # {}
    /\ 0 \notin Remaining
    /\ \A f \in Files : ~dirty[f]
    /\ \E d \in {Min(Remaining), DEBOUNCE_MS \div 2} :
         /\ d <= Min(Remaining)
         /\ timeouts' = {Timeout(t.path, t.remaining - d) : t \in timeouts}
         /\ debounceTimers' = [f \in DOMAIN debounceTimers |-> debounceTimers[f] - d]
         /\ burst' = [f \in DOMAIN burst |-> [burst[f] EXCEPT !.since = @ + d]]
         /\ cycles' = {IF c.pc = "lockwait" THEN [c EXCEPT !.wait = @ - d] ELSE c
                       : c \in cycles}
    /\ UNCHANGED <<parserVars, envVars, dirty, processingQueue, activeWatchers, catchup,
                   running, stateFile, artifact, lock, histVars>>

(* ------------------------------------------------------------------ *)
(* watcher.js: processFile                                             *)
(* ------------------------------------------------------------------ *)
NewCycle(f, origin, id, b) ==
    [id |-> id, file |-> f, origin |-> origin, pc |-> "stat",
     state |-> DefaultState, offset |-> 0, newOffset |-> 0,
     observations |-> NullObs, retries |-> 0, wait |-> 0,
     appended |-> FALSE, reflected |-> FALSE,
     burstCount |-> b.count, firstSize |-> b.firstSize]

\* an identifier no invocation in flight has
FreshId == Min({i \in 1..(Cardinality(cycles) + 1) : \A c \in cycles : c.id # i})

\* variant: no slot check, every trigger is admitted
SlotFree_always(p) == TRUE

\* variant: one slot for all projects
SlotFree_global(p) == \A q \in Projects : ~processingQueue[q]

\* the slot check that admits a trigger
SlotFree(p) == ~processingQueue[p]

\* variant: the release is the last statement of the try block instead
\* of a finally block, an exception skips it
ReleasedQueue_noFinally(p, how) ==
    IF how = "throw" THEN processingQueue
    ELSE [processingQueue EXCEPT ![p] = FALSE]

\* the slot map after the cycle of project p left by `how`:
\* "return", "throw" or "done"; the release sits in a finally block
ReleasedQueue(p, how) == [processingQueue EXCEPT ![p] = FALSE]

\* variant: the slot check sits inside the try block, so the finally
\* block runs for a dropped trigger too
SkippedQueue_released(p) == [processingQueue EXCEPT ![p] = FALSE]

\* the slot map after a trigger for project p was dropped: the return of
\* line 211 comes before the try block
SkippedQueue(p) == processingQueue

\* processFile(f) up to the slot check: dropped, or admitted with the
\* slot set; `dropTok` owns the event loop after a drop; b is the burst
\* that triggered it
processFile(f, origin, dropTok, b) ==
    LET p == ProjectOf(f) IN
    IF ~SlotFree(p)
    THEN /\ running' = dropTok
         /\ processingQueue' = SkippedQueue(p)
         /\ UNCHANGED <<cycles, missed>>
    ELSE /\ processingQueue' = [processingQueue EXCEPT ![p] = TRUE]
         /\ cycles' = cycles \cup {NewCycle(f, origin, FreshId, b)}
         /\ running' = CycleTok(NewCycle(f, origin, FreshId, b))
         /\ missed' = missed \ {f}

\* variant: the callback does not look at the project directory
PathGone_unchecked(p) == FALSE
\* !fs.existsSync(project.path)
PathGone(p) == p \notin projectDirs

\* a timeout of debounceFile fires: the callback of lines 150-162
TimerFire(t) ==
    /\ running = Idle
    /\ t.remaining = 0
    /\ timeouts' = timeouts \ {t}
    /\ debounceTimers' = Del(debounceTimers, t.path)
    /\ burst' = Del(burst, t.path)
    /\ IF PathGone(ProjectOf(t.path))
       THEN UNCHANGED <<processingQueue, cycles, running, missed>>
       ELSE processFile(t.path, "live", Idle,
                        IF t.path \in DOMAIN burst THEN burst[t.path] ELSE NoBurst)
    /\ UNCHANGED <<parserVars, envVars, dirty, activeWatchers, catchup, stateFile,
                   artifact, lock, lastRead, consumed>>

\* variant: an exception that nobody catches ends the process, and every
\* cycle in flight with it
Survivors_exit(c, how) == IF how = "throw" THEN {} ELSE cycles \ {c}
\* the cycles in flight after c left by `how`: the rejection is logged by
\* the .catch of the timer callback or by the unhandledRejection handler
Survivors(c, how) == cycles \ {c}

\* the cycle c leaves processFile: the slot is released, and a catch-up
\* that awaits it goes on (or is rejected by the exception)
ExitCycle(c, how) ==
    LET p == ProjectOf(c.file) IN
    /\ processingQueue' = ReleasedQueue(p, how)
    /\ cycles' = Survivors(c, how)
    /\ IF c.origin = "catchup"
       THEN IF how = "throw"
            THEN /\ catchup' = [catchup EXCEPT ![p].pc = "failed"]
                 /\ running' = Idle
            ELSE /\ catchup' = [catchup EXCEPT ![p].pc = "running"]
                 /\ running' = CatchupTok(p)
       ELSE /\ running' = Idle
            /\ UNCHANGED catchup

Goto(c, c2) == cycles' = (cycles \ {c}) \cup {c2}

\* variant: stat.size < offset
NothingNew_strict(size, offset) == size < offset

\* stat.size <= offset: nothing new past the offset
NothingNew(size, offset) == size <= offset

\* lines 216-233: stat, minimum size, load the cursor, compare
processFile_stat(c) ==
    LET f == c.file
        p == ProjectOf(f)
        state == loadState(p)
        offset == getFileOffset(state, f)
    IN
    /\ running = CycleTok(c)
    /\ c.pc = "stat"
    /\ IF \/ f \notin DOMAIN fileSize
          \/ fileSize[f] < MIN_FILE_SIZE_BYTES
          \/ NothingNew(fileSize[f], offset)
       THEN ExitCycle(c, "return")
       ELSE /\ Goto(c, [c EXCEPT !.pc = "parse", !.state = state, !.offset = offset])
            /\ UNCHANGED <<processingQueue, running, catchup>>
    /\ UNCHANGED <<parserVars, envVars, watchVars, activeWatchers,
                   stateFile, artifact, lock, histVars>>

(* ------------------------------------------------------------------ *)
(* parser.js: parseConversationDelta, as far as the offsets go         *)
(* ------------------------------------------------------------------ *)
\* variant: the new offset is the size of the file even when the file
\* is not longer than the offset
parseConversationDelta_toSize(f, fromOffset) ==
    IF fileSize[f] <= fromOffset
    THEN {[textLen |-> 0, newOffset |-> fileSize[f]]}
    ELSE {[textLen |-> t, newOffset |-> fileSize[f]] : t \in TextLens}

\* variant: the new offset is the old one even when bytes were read
parseConversationDelta_stale(f, fromOffset) ==
    IF fileSize[f] <= fromOffset
    THEN {[textLen |-> 0, newOffset |-> fromOffset]}
    ELSE {[textLen |-> t, newOffset |-> fromOffset] : t \in TextLens}

\* the values parseConversationDelta(f, fromOffset) can return for an
\* existing file: the length of the rendered text is decided by the
\* bytes read
parseConversationDelta(f, fromOffset) ==
    IF fileSize[f] <= fromOffset
    THEN {[textLen |-> 0, newOffset |-> fromOffset]}
    ELSE {[textLen |-> t, newOffset |-> fileSize[f]] : t \in TextLens}

\* saveState(p, state) followed by the return; the write can fail
\* (disk full, state directory not writable), which throws
SaveAndExit(c, state) ==
    LET p == ProjectOf(c.file) IN
    \/ /\ stateFile' = [stateFile EXCEPT ![p] = state]
       /\ ExitCycle(c, "done")
    \/ /\ UNCHANGED stateFile
       /\ ExitCycle(c, "throw")

\* the range [from, to) that a cycle read from f
ReadRange(f, from, to) == Put(lastRead, f, [from |-> from, to |-> to])
\* the end of the range of a cycle whose save went through
Saved(f, to) ==
    IF stateFile' # stateFile THEN Put(consumed, f, to) ELSE consumed

\* lines 238-252: parse the delta, give up on too little text, run the
\* extraction pass
processFile_parse(c) ==
    LET f == c.file IN
    /\ running = CycleTok(c)
    /\ c.pc = "parse"
    /\ IF f \notin DOMAIN fileSize
       THEN \* statSync throws: the file was deleted since line 219
            /\ ExitCycle(c, "throw")
            /\ UNCHANGED <<stateFile, lastRead, consumed>>
       ELSE \E r \in parseConversationDelta(f, c.offset) :
              /\ lastRead' = ReadRange(f, c.offset, r.newOffset)
              /\ IF r.textLen < MIN_TEXT_CHARS
                 THEN /\ SaveAndExit(c, updateFileOffset(c.state, f, r.newOffset, 0))
                      /\ consumed' = Saved(f, r.newOffset)
                 ELSE /\ UNCHANGED consumed
                      /\ \/ \E out \in PassOutcomes :
                              /\ Goto(c, [c EXCEPT
                                     !.pc = IF Truthy(runObserver(out))
                                            THEN "append" ELSE "finish",
                                     !.newOffset = r.newOffset,
                                     !.observations = runObserver(out)])
                              /\ UNCHANGED <<processingQueue, running, catchup, stateFile>>
                         \/ \* runObserver cannot read its prompt file
                            /\ ExitCycle(c, "throw")
                            /\ UNCHANGED stateFile
    /\ UNCHANGED <<parserVars, envVars, watchVars, activeWatchers, artifact, lock, missed>>

(* ------------------------------------------------------------------ *)
(* observer.js: appendObservations, exceedsThreshold                   *)
(* ------------------------------------------------------------------ *)
\* variant: retries <= LOCK_MAX_RETRIES, one wait more
LockWaitContinues_inclusive(p, retries) == lock[p] /\ retries <= LOCK_MAX_RETRIES
\* variant: no check after the loop, the append goes ahead
LockStillPresent_unchecked(p) == FALSE

\* the loop condition of the lock wait
LockWaitContinues(p, retries) == lock[p] /\ retries < LOCK_MAX_RETRIES
\* the check after the loop
LockStillPresent(p) == lock[p]

\* the artifact after the append of the observations o; mkdirSync with
\* `recursive` creates the project directory again if it is gone
Appended(content, o) ==
    Append(IF content = Absent THEN <<TopHeader>> ELSE content, Section(o))

\* variant: stat.size / 4 >= threshold
exceedsThreshold_atLeast(content, threshold) ==
    /\ content # Absent
    /\ SeqBytes(content) >= 4 * threshold

\* stat.size / 4 > threshold, for the content `content`
exceedsThreshold(content, threshold) ==
    /\ content # Absent
    /\ SeqBytes(content) > 4 * threshold

Threshold(p) ==
    IF reflectorThreshold(p) # 0 THEN reflectorThreshold(p)
    ELSE DEFAULT_REFLECTOR_THRESHOLD

\* appendObservations from the loop test on, and lines 256-265 of
\* processFile when it returned true
appendObservations(c) ==
    LET p == ProjectOf(c.file) IN
    /\ running = CycleTok(c)
    /\ c.pc = "append"
    /\ IF LockWaitContinues(p, c.retries)
       THEN \* suspend on setTimeout(LOCK_RETRY_DELAY_MS)
            /\ Goto(c, [c EXCEPT !.pc = "lockwait", !.wait = LOCK_RETRY_DELAY_MS])
            /\ running' = Idle
            /\ UNCHANGED <<processingQueue, catchup, artifact, projectDirs>>
       ELSE IF LockStillPresent(p)
       THEN \* return false
            /\ Goto(c, [c EXCEPT !.pc = "finish"])
            /\ UNCHANGED <<processingQueue, catchup, artifact, running, projectDirs>>
       ELSE \/ /\ artifact' = [artifact EXCEPT ![p] = Appended(@, c.observations)]
               /\ projectDirs' = projectDirs \cup {p}
               /\ Goto(c, [c EXCEPT
                      !.appended = TRUE,
                      !.state.totalObserverPasses = @ + 1,
                      !.pc = IF exceedsThreshold(Appended(artifact[p], c.observations),
                                                 Threshold(p))
                             THEN "runReflector" ELSE "finish"])
               /\ UNCHANGED <<processingQueue, catchup, running>>
            \/ \* the write fails
               /\ ExitCycle(c, "throw")
               /\ UNCHANGED <<artifact, projectDirs>>
    /\ UNCHANGED <<parserVars, hotVars, registered, fileSize, truncated, meddles,
                   seal, watchVars, activeWatchers, stateFile, lock, histVars>>

\* the retry timer of a waiting appender fires: retries++
LockRetryWake(c) ==
    /\ running = Idle
    /\ c.pc = "lockwait"
    /\ c.wait = 0
    /\ Goto(c, [c EXCEPT !.pc = "append", !.retries = @ + 1])
    /\ running' = CycleTok(c)
    /\ UNCHANGED <<parserVars, envVars, watchVars, processingQueue, activeWatchers, catchup,
                   stateFile, artifact, lock, histVars>>

(* ------------------------------------------------------------------ *)
(* reflector.js: runReflector                                          *)
(* ------------------------------------------------------------------ *)
\* lines 19-25: the marker is written
runReflector_acquire(c) ==
    LET p == ProjectOf(c.file) IN
    /\ running = CycleTok(c)
    /\ c.pc = "runReflector"
    /\ lock' = [lock EXCEPT ![p] = TRUE]
    /\ Goto(c, [c EXCEPT !.pc = "reflect"])
    /\ UNCHANGED <<parserVars, envVars, watchVars, processingQueue, activeWatchers, catchup,
                   running, stateFile, artifact, histVars>>

\* variant: no minimum length, any output replaces the artifact
TooShort_never(len) == FALSE
\* !consolidated || consolidated.length < 50
TooShort(len) == len < MIN_CONSOLIDATED_CHARS
\* the chunk that `consolidated + '\n'` is for the outcome r
Rewritten(r) == IF r = "short" THEN "r" ELSE Consolidated

\* lines 27-67: read the artifact, run the compaction pass, rewrite
runReflector_body(c) ==
    LET p == ProjectOf(c.file) IN
    /\ running = CycleTok(c)
    /\ c.pc = "reflect"
    /\ IF artifact[p] = Absent \/ artifact[p] = <<>>
       THEN \* readFileSync throws, or the content is empty
            /\ Goto(c, [c EXCEPT !.pc = "release"])
            /\ UNCHANGED artifact
       ELSE \E r \in ReflectOutcomes :
              IF r = "throws" \/ TooShort(ConsolidatedLen(r))
              THEN /\ Goto(c, [c EXCEPT !.pc = "release"])
                   /\ UNCHANGED artifact
              ELSE /\ artifact' = [artifact EXCEPT ![p] = <<Rewritten(r)>>]
                   /\ Goto(c, [c EXCEPT !.pc = "release", !.reflected = TRUE])
    /\ UNCHANGED <<parserVars, envVars, watchVars, processingQueue, activeWatchers, catchup,
                   running, stateFile, lock, histVars>>

\* variant: the marker is removed only after a successful rewrite
ReleaseLock_onSuccess(p, reflected) ==
    IF reflected THEN [lock EXCEPT ![p] = FALSE] ELSE lock

\* the marker map after the finally block of runReflector
ReleaseLock(p, reflected) == [lock EXCEPT ![p] = FALSE]

\* lines 68-71, and lines 268-272 of processFile
runReflector_release(c) ==
    LET p == ProjectOf(c.file) IN
    /\ running = CycleTok(c)
    /\ c.pc = "release"
    /\ lock' = ReleaseLock(p, c.reflected)
    /\ Goto(c, IF c.reflected
               THEN [c EXCEPT !.pc = "finish",
                              !.state.totalReflectorPasses = @ + 1,
                              !.state.lastReflection = Now(@)]
               ELSE [c EXCEPT !.pc = "finish"])
    /\ UNCHANGED <<parserVars, envVars, watchVars, processingQueue, activeWatchers, catchup,
                   running, stateFile, artifact, histVars>>

\* the offset a cycle stores at line 279, whether or not its observations
\* were appended
FinishOffset_retry(c) ==
    IF Truthy(c.observations) /\ ~c.appended THEN c.offset ELSE c.newOffset
FinishOffset(c) == c.newOffset

\* lines 279-283: advance the cursor, save, release the slot
processFile_finish(c) ==
    /\ running = CycleTok(c)
    /\ c.pc = "finish"
    /\ SaveAndExit(c, updateFileOffset(c.state, c.file, FinishOffset(c),
                                       IF Truthy(c.observations) THEN 1 ELSE 0))
    /\ consumed' = Saved(c.file, FinishOffset(c))
    /\ UNCHANGED <<parserVars, envVars, watchVars, activeWatchers, artifact, lock,
                   lastRead, missed>>

(* ------------------------------------------------------------------ *)
(* watcher.js: watchProject, catchupProject                            *)
(* ------------------------------------------------------------------ *)
\* the files catchupProject selects, in the order it processes them:
\* any order stands for the modification times the model does not keep
CatchupLists(p) ==
    LET state == loadState(p)
        todo == {f \in FilesOf(p) \cap DOMAIN fileSize :
                   /\ fileSize[f] >= MIN_FILE_SIZE_BYTES
                   /\ fileSize[f] > getFileOffset(state, f)}
    IN {Take(q, MAX_CATCHUP_FILES) : q \in Perms(todo)}

\* watchProject(p) as called by startWatching
watchProject(p) ==
    /\ running = Idle
    /\ p \in registered
    /\ catchup[p].pc = "pending"
    /\ ~activeWatchers[p]
    /\ IF p \notin claudeDirs
       THEN \* the log directory is not there: tried again on a config change
            /\ catchup' = [catchup EXCEPT ![p].pc = "unknown"]
            /\ UNCHANGED <<running, activeWatchers>>
       ELSE IF skipCatchup(p)
       THEN /\ catchup' = [catchup EXCEPT ![p].pc = "done"]
            /\ activeWatchers' = [activeWatchers EXCEPT ![p] = TRUE]
            /\ UNCHANGED running
       ELSE /\ \E q \in CatchupLists(p) :
                 catchup' = [catchup EXCEPT ![p] = [pc |-> "running", queue |-> q]]
            /\ running' = CatchupTok(p)
            /\ UNCHANGED activeWatchers
    /\ UNCHANGED <<parserVars, envVars, watchVars, processingQueue, cycles,
                   stateFile, artifact, lock, histVars>>

\* the loop of catchupProject: the next file, or the end and the
\* registration of the watcher
catchupProject_next(p) ==
    /\ running = CatchupTok(p)
    /\ catchup[p].pc = "running"
    /\ IF catchup[p].queue = <<>>
       THEN /\ catchup' = [catchup EXCEPT ![p].pc = "done"]
            /\ activeWatchers' = [activeWatchers EXCEPT ![p] = TRUE]
            /\ running' = Idle
            /\ UNCHANGED <<processingQueue, cycles, missed>>
       ELSE /\ processFile(Head(catchup[p].queue), "catchup", CatchupTok(p), NoBurst)
            /\ catchup' = [catchup EXCEPT
                 ![p].queue = Tail(@),
                 ![p].pc = IF SlotFree(p) THEN "awaiting" ELSE "running"]
            /\ UNCHANGED activeWatchers
    /\ UNCHANGED <<parserVars, envVars, watchVars, stateFile, artifact, lock,
                   lastRead, consumed>>

(* ------------------------------------------------------------------ *)
(* The specification                                                   *)
(* ------------------------------------------------------------------ *)
Environment ==
    /\ EnvMayAct
    /\ \/ \E f \in Files : FileAppend(f)
       \/ \E f \in Files : FileTruncate(f)
       \/ \E f \in Files : FileDelete(f)
       \/ \E p \in Projects : EnvRemoveLock(p)
       \/ \E p \in Projects : EnvClearArtifact(p)

Daemon ==
    \/ \E p \in Projects : watchProject(p)
    \/ \E p \in Projects : catchupProject_next(p)
    \/ \E f \in Files : debounceFile(f)
    \/ \E t \in timeouts : TimerFire(t)
    \/ Tick
    \/ \E c \in cycles : processFile_stat(c)
    \/ \E c \in cycles : processFile_parse(c)
    \/ \E c \in cycles : appendObservations(c)
    \/ \E c \in cycles : LockRetryWake(c)
    \/ \E c \in cycles : runReflector_acquire(c)
    \/ \E c \in cycles : runReflector_body(c)
    \/ \E c \in cycles : runReflector_release(c)
    \/ \E c \in cycles : processFile_finish(c)

Next == Environment \/ Daemon

Spec == Init /\ [][Next]_vars

(* ------------------------------------------------------------------ *)
(* Two projects side by side, and a user who removes a project's       *)
(* directory with the artifact and the marker in it                    *)
(* ------------------------------------------------------------------ *)
ProjectDirRemoved(p) ==
    /\ meddles < MaxMeddle
    /\ p \in projectDirs
    /\ projectDirs' = projectDirs \ {p}
    /\ artifact' = [artifact EXCEPT ![p] = Absent]
    /\ lock' = [lock EXCEPT ![p] = FALSE]
    /\ meddles' = meddles + 1
    /\ UNCHANGED <<parserVars, hotVars, seal, registered, fileSize, truncated,
                   watchVars, processingQueue, activeWatchers, catchup, cycles,
                   running, stateFile, histVars>>

InitMulti ==
    /\ registered = Projects
    /\ fileSize = [f \in Files |-> IF f = "b" THEN 512 ELSE 1024]
    /\ dirty = [f \in Files |-> FALSE]
    /\ timeouts = {}
    /\ debounceTimers = EmptyMap
    /\ processingQueue = [p \in Projects |-> FALSE]
    /\ activeWatchers = [p \in Projects |-> FALSE]
    /\ catchup = [p \in Projects |-> [pc |-> "pending", queue |-> <<>>]]
    /\ cycles = {}
    /\ running = Idle
    /\ stateFile = [p \in Projects |-> DefaultState]
    /\ artifact = [p \in Projects |-> <<TopHeader>>]
    /\ lock \in [Projects -> BOOLEAN]
    /\ truncated = {}
    /\ meddles = 0
    /\ seal = NoSeal
    /\ projectDirs = Projects
    /\ configWatcher = "idle"
    /\ claudeDirs = Projects
    /\ burst = EmptyMap
    /\ lastRead = EmptyMap
    /\ consumed = EmptyMap
    /\ missed = {}
    /\ NoDelta

NextMulti ==
    \/ EnvMayAct /\ \E f \in Files : FileAppend(f)
    \/ Daemon

MultiSpec == InitMulti /\ [][NextMulti]_vars

(* ------------------------------------------------------------------ *)
(* Hot reload: `claude-memory init` registers a project while the      *)
(* daemon runs, and the daemon's watcher on projects.json starts it    *)
(* ------------------------------------------------------------------ *)
\* init.js, registerProject: the project is pushed to projects.json; the
\* write is a change event for the watcher, if there is one
registerProject(p) ==
    /\ p \notin registered
    /\ registered' = registered \cup {p}
    /\ configWatcher' = IF configWatcher = "none" THEN "none" ELSE "changed"
    /\ UNCHANGED <<parserVars, claudeDirs, projectDirs, seal, fileSize, truncated,
                   meddles, watchVars, processingQueue, activeWatchers, catchup,
                   cycles, running, stateFile, artifact, lock, histVars>>

\* the first session of Claude Code in the project creates its log
\* directory
ClaudeDirCreated(p) ==
    /\ p \notin claudeDirs
    /\ claudeDirs' = claudeDirs \cup {p}
    /\ UNCHANGED <<parserVars, configWatcher, projectDirs, seal, registered,
                   fileSize, truncated, meddles, watchVars, processingQueue,
                   activeWatchers, catchup, cycles, running, stateFile, artifact,
                   lock, histVars>>

\* the 'change' handler of watchProjectsConfig: watchProject for every
\* project of the file without a watcher.  For a project whose catch-up
\* is in flight (its cycle sleeps on the marker and holds the slot) the
\* second catchupProject has every file dropped at the slot check and
\* the watcher is registered on the spot.  In this world one project at
\* most has a catch-up to start.
watchProjectsConfig_change ==
    LET calls == {p \in registered :
                    ~activeWatchers[p] /\ p \in projectDirs /\ p \in claudeDirs}
        again == {p \in calls : catchup[p].pc \in {"running", "awaiting"}}
        fresh == {p \in calls \ again : ~skipCatchup(p)}
    IN
    /\ running = Idle
    /\ configWatcher = "changed"
    \* startWatching installs the watcher after its loop over the projects
    /\ \A p \in Projects : catchup[p].pc # "pending"
    /\ configWatcher' = "idle"
    /\ activeWatchers' = [p \in Projects |->
           activeWatchers[p] \/ p \in again
             \/ (p \in calls /\ skipCatchup(p))]
    /\ \E q \in [fresh -> UNION {CatchupLists(p) : p \in fresh}] :
          /\ \A p \in fresh : q[p] \in CatchupLists(p)
          /\ catchup' = [p \in Projects |->
                IF p \in fresh THEN [pc |-> "running", queue |-> q[p]]
                ELSE IF p \in calls \ again
                THEN [pc |-> "done", queue |-> <<>>]
                ELSE catchup[p]]
    /\ running' = IF fresh = {} THEN Idle ELSE CatchupTok(CHOOSE p \in fresh : TRUE)
    /\ UNCHANGED <<parserVars, claudeDirs, projectDirs, seal, registered, fileSize,
                   truncated, meddles, watchVars, processingQueue, cycles,
                   stateFile, artifact, lock, histVars>>

\* daemonMain with any projects.json, or none, and any log directories
InitHot ==
    /\ registered \in SUBSET Projects
    /\ configWatcher \in (IF registered = {} THEN {"none", "idle"} ELSE {"idle"})
    /\ claudeDirs \in SUBSET Projects
    /\ fileSize = [f \in Files |-> IF f = "b" THEN 512 ELSE 1024]
    /\ dirty = [f \in Files |-> FALSE]
    /\ timeouts = {}
    /\ debounceTimers = EmptyMap
    /\ processingQueue = [p \in Projects |-> FALSE]
    /\ activeWatchers = [p \in Projects |-> FALSE]
    /\ catchup = [p \in Projects |->
          [pc |-> IF p \in registered THEN "pending" ELSE "unknown", queue |-> <<>>]]
    /\ cycles = {}
    /\ running = Idle
    /\ stateFile = [p \in Projects |-> DefaultState]
    /\ artifact = [p \in Projects |-> <<TopHeader>>]
    /\ lock \in [Projects -> BOOLEAN]
    /\ truncated = {}
    /\ meddles = 0
    /\ seal = NoSeal
    /\ projectDirs = Projects
    /\ burst = EmptyMap
    /\ lastRead = EmptyMap
    /\ consumed = EmptyMap
    /\ missed = {}
    /\ NoDelta

\* the daemon from its start to the registration of the watchers
Startup ==
    \/ \E p \in Projects : watchProject(p)
    \/ watchProjectsConfig_change
    \/ \E p \in Projects : catchupProject_next(p)
    \/ Tick
    \/ \E c \in cycles : processFile_stat(c)
    \/ \E c \in cycles : processFile_parse(c)
    \/ \E c \in cycles : appendObservations(c)
    \/ \E c \in cycles : LockRetryWake(c)
    \/ \E c \in cycles : runReflector_acquire(c)
    \/ \E c \in cycles : runReflector_body(c)
    \/ \E c \in cycles : runReflector_release(c)
    \/ \E c \in cycles : processFile_finish(c)

NextHot ==
    \/ \E p \in Projects : registerProject(p)
    \/ \E p \in Projects : ClaudeDirCreated(p)
    \/ Startup

HotSpec == InitHot /\ [][NextHot]_vars

\* the daemon does not stop while one of its steps is enabled
HotLive == HotSpec /\ WF_vars(Startup)

NextGone ==
    \/ EnvMayAct /\ \E f \in Files : FileAppend(f)
    \/ EnvMayAct /\ \E f \in Files : FileDelete(f)
    \/ EnvMayAct /\ \E p \in Projects : ProjectDirRemoved(p)
    \/ Daemon

GoneSpec == Init /\ [][NextGone]_vars

(* ------------------------------------------------------------------ *)
(* The daemon beside sessions that only append to their logs, and a    *)
(* user who touches the artifact or the marker: no log is truncated,   *)
(* replaced or deleted                                                 *)
(* ------------------------------------------------------------------ *)
NextAppend ==
    \/ EnvMayAct /\ \E f \in Files : FileAppend(f)
    \/ EnvMayAct /\ \E p \in Projects : EnvRemoveLock(p)
    \/ EnvMayAct /\ \E p \in Projects : EnvClearArtifact(p)
    \/ Daemon

AppendSpec == Init /\ [][NextAppend]_vars

(* ------------------------------------------------------------------ *)
(* The seal command (`claude-memory seal`): a process of its own,      *)
(* started by the user while the daemon runs.  It loads the cursor     *)
(* record, moves the offset of every log file that has bytes past it   *)
(* to the end of the file, and saves the record.                       *)
(* ------------------------------------------------------------------ *)
\* the loop of lines 557-565 over the files S
RECURSIVE SealFiles(_, _)
SealFiles(state, S) ==
    IF S = {} THEN state
    ELSE LET f == CHOOSE x \in S : TRUE IN
         SealFiles(IF fileSize[f] > getFileOffset(state, f)
                   THEN updateFileOffset(state, f, fileSize[f], 0)
                   ELSE state,
                   S \ {f})

\* lines 554-565: loadState and the loop; `sealed` counts the changes
seal_load(p) ==
    LET state == SealFiles(loadState(p), FilesOf(p) \cap DOMAIN fileSize) IN
    /\ seal.pc = "idle"
    /\ p \in registered
    /\ seal' = [pc |-> IF state # loadState(p) THEN "loaded" ELSE "done",
                proj |-> p, state |-> state]
    /\ UNCHANGED <<parserVars, hotVars, projectDirs, registered, fileSize, truncated, meddles, watchVars,
                   processingQueue, activeWatchers, catchup, cycles, running,
                   stateFile, artifact, lock, histVars>>

\* lines 567-569: saveState when something was sealed
seal_save ==
    /\ seal.pc = "loaded"
    /\ stateFile' = [stateFile EXCEPT ![seal.proj] = seal.state]
    /\ seal' = [seal EXCEPT !.pc = "done"]
    /\ UNCHANGED <<parserVars, hotVars, projectDirs, registered, fileSize, truncated, meddles, watchVars,
                   processingQueue, activeWatchers, catchup, cycles, running,
                   artifact, lock, histVars>>

\* the daemon starts with two log files to catch up on, and the user
\* runs the seal command at some moment
InitSeal ==
    /\ registered = {"p1"}
    /\ fileSize = [f \in Files |-> IF f = "a" THEN 1024 ELSE 2048]
    /\ dirty = [f \in Files |-> FALSE]
    /\ timeouts = {}
    /\ debounceTimers = EmptyMap
    /\ processingQueue = [p \in Projects |-> FALSE]
    /\ activeWatchers = [p \in Projects |-> FALSE]
    /\ catchup = [p \in Projects |-> [pc |-> "pending", queue |-> <<>>]]
    /\ cycles = {}
    /\ running = Idle
    /\ stateFile = [p \in Projects |-> DefaultState]
    /\ artifact = [p \in Projects |-> <<TopHeader>>]
    /\ lock \in {l \in [Projects -> BOOLEAN] : \A p \in Projects : l[p] => p \in registered}
    /\ truncated = {}
    /\ meddles = 0
    /\ seal = NoSeal
    /\ projectDirs = Projects
    /\ configWatcher = "idle"
    /\ claudeDirs = Projects
    /\ burst = EmptyMap
    /\ lastRead = EmptyMap
    /\ consumed = EmptyMap
    /\ missed = {}
    /\ NoDelta

NextSeal ==
    \/ \E p \in Projects : seal_load(p)
    \/ seal_save
    \/ \E p \in Projects : watchProject(p)
    \/ \E p \in Projects : catchupProject_next(p)
    \/ Tick
    \/ \E c \in cycles : processFile_stat(c)
    \/ \E c \in cycles : processFile_parse(c)
    \/ \E c \in cycles : appendObservations(c)
    \/ \E c \in cycles : LockRetryWake(c)
    \/ \E c \in cycles : runReflector_acquire(c)
    \/ \E c \in cycles : runReflector_body(c)
    \/ \E c \in cycles : runReflector_release(c)
    \/ \E c \in cycles : processFile_finish(c)

SealSpec == InitSeal /\ [][NextSeal]_vars

(* ------------------------------------------------------------------ *)
(* parser.js: rendering the decoded entries of a delta                 *)
(* ------------------------------------------------------------------ *)
\* message.id of an entry that carries none
NoId == "none"
NoInput == [file_path |-> "", new_string |-> ""]

\* the blocks of message.content
Text(t) == [type |-> "text", name |-> "", input |-> NoInput, is_error |-> FALSE, text |-> t]
Thinking(t) == [type |-> "thinking", name |-> "", input |-> NoInput, is_error |-> FALSE, text |-> t]
ToolUse(n, in) == [type |-> "tool_use", name |-> n, input |-> in, is_error |-> FALSE, text |-> ""]
ToolResult(err, t) == [type |-> "tool_result", name |-> "", input |-> NoInput, is_error |-> err, text |-> t]

\* one line of the log: type, message.id, isMeta, message.content
Entry(type, id, meta, content) ==
    [type |-> type, id |-> id, isMeta |-> meta, content |-> content]
\* entries[k] for an index outside the array
NoEntry == Entry("undefined", NoId, FALSE, <<>>)
At(es, k) == IF k \in 1..Len(es) THEN es[k] ELSE NoEntry

\* the texts of the modelled logs and their lengths in characters
LongOutput == "long output"
Chars(text) == IF text = LongOutput THEN MAX_TOOL_RESULT_CHARS + 1 ELSE 20
Cut(text) == "long ... [truncated 51 of 501 chars] ... output"
truncateText(text, maxChars) == IF Chars(text) <= maxChars THEN text ELSE Cut(text)

\* a summary is the sequence of the pieces the template string joins
summarizeToolInput(toolName, input) ==
    CASE toolName = "Read" -> <<input.file_path>>
      [] toolName = "Edit" -> <<input.file_path, " (edit)">>
      [] OTHER -> <<input.file_path>>

IsToolUse(b) == b.type = "tool_use"
IsToolResult(b) == b.type = "tool_result"
IsError(b) == b.is_error

\* null is the empty sequence: the code returns no empty array
getToolUses(entry) ==
    IF entry.type # "assistant" THEN <<>>
    ELSE LET uses == SelectSeq(entry.content, IsToolUse)
         IN [k \in 1..Len(uses) |->
                [name |-> uses[k].name, input |-> uses[k].input,
                 summary |-> summarizeToolInput(uses[k].name, uses[k].input)]]

AllErrors_any(toolResults, errors) == Len(errors) > 0
AllErrors(toolResults, errors) == Len(errors) = Len(toolResults)

getErrorResults(entry) ==
    IF entry.type \notin {"user", "human"} THEN <<>>
    ELSE LET toolResults == SelectSeq(entry.content, IsToolResult)
             errors == SelectSeq(toolResults, IsError)
         IN IF toolResults = <<>> THEN <<>>
            ELSE IF ~AllErrors(toolResults, errors) THEN <<>>
            ELSE [k \in 1..Len(errors) |-> errors[k].text]

\* variant: no entry counts as commentary, the loop skips nothing
isTextOnlyMessage_never(entry) == FALSE
isTextOnlyMessage(entry) ==
    /\ entry.type = "assistant"
    /\ \A k \in 1..Len(entry.content) : entry.content[k].type \in {"text", "thinking"}

\* the regular expressions of classifyError on the modelled texts
Matches(word, text) ==
    \/ word = "permission" /\ text \in {"EACCES: permission denied", "Permission denied"}
    \/ word = "timeout" /\ text = "Timeout after 30s"
    \/ word = "doesn.t want to proceed" /\ text = "The user doesn't want to proceed"
AnyMatches(word, errorTexts) ==
    \E k \in 1..Len(errorTexts) : Matches(word, errorTexts[k])
classifyError(errorTexts) ==
    IF AnyMatches("permission", errorTexts) THEN "permission denied"
    ELSE IF AnyMatches("doesn.t want to proceed", errorTexts) THEN "user rejected"
    ELSE IF AnyMatches("timeout", errorTexts) THEN "timeout"
    ELSE IF errorTexts = <<>> THEN ""
    ELSE truncateText(errorTexts[1], 120)

\* tryDetectChain returned null
NoChain == [attempts |-> <<>>, endIndex |-> 0]

\* the test on message.id that ends a chain at a parallel call
SameMessage_never(msgId, firstMessageId) == FALSE
SameMessage(msgId, firstMessageId) ==
    msgId # NoId /\ firstMessageId # NoId /\ msgId = firstMessageId

\* an attempt; `at` is the index of its entry, kept for the properties
Attempt(es, k) ==
    [toolUses |-> getToolUses(es[k]),
     errors |-> getErrorResults(At(es, k + 1)),
     errorBrief |-> classifyError(getErrorResults(At(es, k + 1))),
     at |-> k]

\* a call whose result is not all-error ends the chain
Resolves_never(errors) == FALSE
Resolves(errors) == errors = <<>>

\* the while loop of tryDetectChain, at index i with the attempts so far
RECURSIVE ChainLoop(_, _, _, _)
ChainLoop(es, startIndex, attempts, i) ==
    IF i > Len(es) THEN [attempts |-> attempts, endIndex |-> i]
    ELSE IF isTextOnlyMessage(es[i]) THEN ChainLoop(es, startIndex, attempts, i + 1)
    ELSE LET toolUses == getToolUses(es[i])
             ended == [attempts |-> attempts, endIndex |-> i]
         IN IF toolUses = <<>> THEN ended
            ELSE IF SameMessage(es[i].id, es[startIndex].id) THEN ended
            ELSE IF toolUses[1].name # getToolUses(es[startIndex])[1].name THEN ended
            ELSE IF Resolves(getErrorResults(At(es, i + 1))) THEN ended
            ELSE ChainLoop(es, startIndex, Append(attempts, Attempt(es, i)), i + 2)

\* indices count from 1 here and from 0 in the code
tryDetectChain(es, startIndex) ==
    IF getToolUses(es[startIndex]) = <<>> THEN NoChain
    ELSE IF getErrorResults(At(es, startIndex + 1)) = <<>> THEN NoChain
    ELSE ChainLoop(es, startIndex, <<Attempt(es, startIndex)>>, startIndex + 2)

\* a rendered line
Line(tag, body) == [tag |-> tag, body |-> body]

\* the summaries of an attempt's calls, which the code joins with ', '
InputSig(a) == [k \in 1..Len(a.toolUses) |-> a.toolUses[k].summary]

AllIdentical_raw(attempts) ==
    \A k \in 1..Len(attempts) : attempts[k].toolUses[1].input = attempts[1].toolUses[1].input
AllIdentical(attempts) ==
    \A k \in 1..Len(attempts) : InputSig(attempts[k]) = InputSig(attempts[1])

SameError_always(attempts) == TRUE
SameError(attempts) ==
    \A k \in 1..Len(attempts) : attempts[k].errorBrief = attempts[1].errorBrief

\* the summary string: its head and its indented lines
formatChainSummary(chain) ==
    LET attempts == chain.attempts
        count == Len(attempts)
        detail ==
            IF AllIdentical(attempts)
            THEN << <<"Input", InputSig(attempts[1])>>,
                    <<"Error", attempts[1].errorBrief>> >>
            ELSE << <<"First", InputSig(attempts[1])>>,
                    <<"Last", InputSig(attempts[count])>>,
                    IF SameError(attempts)
                    THEN <<"Error", attempts[1].errorBrief>>
                    ELSE <<"Last error", attempts[count].errorBrief>> >>
    IN Line("Retry chain", <<attempts[1].toolUses[1].name, count, detail>>)

\* the error-flagged results that formatEntry leaves to chain detection
SkipsResult_never(block) == FALSE
SkipsResult(block) == block.is_error

formatBlock(obj, block) ==
    IF obj.type \in {"user", "human"}
    THEN IF block.type = "text" /\ block.text # ""
         THEN IF obj.isMeta THEN <<>> ELSE <<Line("User", <<block.text>>)>>
         ELSE IF block.type = "tool_result"
         THEN IF SkipsResult(block) \/ block.text = "" THEN <<>>
              ELSE <<Line("Tool Result",
                          <<truncateText(block.text, MAX_TOOL_RESULT_CHARS)>>)>>
         ELSE <<>>
    ELSE IF obj.type = "assistant"
    THEN IF block.type = "text" /\ block.text # ""
         THEN <<Line("Assistant", <<block.text>>)>>
         ELSE IF block.type = "tool_use"
         THEN <<Line("Tool", <<block.name,
                               summarizeToolInput(block.name, block.input)>>)>>
         ELSE <<>>
    ELSE <<>>

RECURSIVE formatBlocks(_, _)
formatBlocks(obj, content) ==
    IF content = <<>> THEN <<>>
    ELSE formatBlock(obj, Head(content)) \o formatBlocks(obj, Tail(content))

formatEntry(obj) == formatBlocks(obj, obj.content)

\* the marker that closes a chain of one attempt
ErrorMarker_none(attempt) == <<>>
ErrorMarker(attempt) == <<Line("Tool error", <<attempt.errorBrief>>)>>

\* what formatWithChainDetection pushes for a chain of one attempt
SingleError(attempt) ==
    [k \in 1..Len(attempt.toolUses) |->
        Line("Tool", <<attempt.toolUses[k].name, attempt.toolUses[k].summary>>)]
    \o ErrorMarker(attempt)

daemonVars == <<watchVars, envVars, histVars, processingQueue, activeWatchers,
                catchup, cycles, running, stateFile, artifact, lock>>

Walked(chain, lines) == Append(walked, [start |-> idx, chain |-> chain, lines |-> lines])

\* an iteration of the walk that finds a chain of one attempt
formatWithChainDetection_single ==
    /\ idx <= Len(entries)
    /\ LET chain == tryDetectChain(entries, idx)
       IN /\ chain # NoChain
          /\ Len(chain.attempts) = 1
          /\ parts' = parts \o SingleError(chain.attempts[1])
          /\ idx' = chain.endIndex
          /\ walked' = Walked(chain, SingleError(chain.attempts[1]))
    /\ UNCHANGED <<entries, raw, daemonVars>>

\* an iteration of the walk that finds a chain of two or more attempts
formatWithChainDetection_chain ==
    /\ idx <= Len(entries)
    /\ LET chain == tryDetectChain(entries, idx)
       IN /\ chain # NoChain
          /\ Len(chain.attempts) > 1
          /\ parts' = Append(parts, formatChainSummary(chain))
          /\ idx' = chain.endIndex
          /\ walked' = Walked(chain, <<formatChainSummary(chain)>>)
    /\ UNCHANGED <<entries, raw, daemonVars>>

\* an iteration of the walk that finds no chain
formatWithChainDetection_entry ==
    /\ idx <= Len(entries)
    /\ tryDetectChain(entries, idx) = NoChain
    /\ parts' = parts \o formatEntry(entries[idx])
    /\ idx' = idx + 1
    /\ walked' = Walked(NoChain, formatEntry(entries[idx]))
    /\ UNCHANGED <<entries, raw, daemonVars>>

\* the entries of the modelled logs
Edits == [file_path : {"f1", "f2"}, new_string : {"x", "y"}]
Calls ==
    {Entry("assistant", id, FALSE, <<ToolUse("Edit", in)>>) :
        id \in {"m1", "m2"}, in \in {in \in Edits : in.new_string = "x"}}
    \cup {Entry("assistant", "m2", FALSE,
                <<ToolUse("Edit", [file_path |-> "f1", new_string |-> "y"])>>),
          Entry("assistant", NoId, FALSE,
                <<ToolUse("Edit", [file_path |-> "f1", new_string |-> "x"])>>),
          Entry("assistant", "m2", FALSE,
                <<ToolUse("Read", [file_path |-> "f1", new_string |-> ""])>>)}
Failure(text) == Entry("user", NoId, FALSE, <<ToolResult(TRUE, text)>>)
Success == Entry("user", NoId, FALSE, <<ToolResult(FALSE, "ok")>>)
Commentary == Entry("assistant", "m3", FALSE, <<Thinking("hm"), Text("I need permission")>>)
Results == {Failure("EACCES: permission denied"), Failure("ENOENT: no such file"), Success}
Others ==
    {Commentary,
     Entry("assistant", "m1", FALSE,
           <<Text("two at once"),
             ToolUse("Edit", [file_path |-> "f1", new_string |-> "x"]),
             ToolUse("Read", [file_path |-> "f2", new_string |-> ""])>>),
     Entry("user", NoId, FALSE, <<Text("please fix it")>>),
     Entry("user", NoId, TRUE, <<Text("/clear")>>),
     Entry("user", NoId, FALSE,
           <<ToolResult(TRUE, "Timeout after 30s"), ToolResult(FALSE, LongOutput)>>),
     Entry("user", NoId, FALSE, <<ToolResult(FALSE, "")>>),
     Entry("system", NoId, FALSE, <<>>)}

RECURSIVE SeqsUpTo(_, _)
SeqsUpTo(S, n) ==
    IF n = 0 THEN {<<>>}
    ELSE LET shorter == SeqsUpTo(S, n - 1)
         IN shorter \cup {Append(s, e) : s \in {t \in shorter : Len(t) = n - 1}, e \in S}

\* a call and its result, with or without commentary before the call
Rounds == {pre \o <<call, result>> :
              pre \in {<<>>, <<Commentary>>}, call \in Calls, result \in Results}
RECURSIVE Retries(_)
Retries(n) ==
    IF n = 0 THEN {<<>>}
    ELSE Retries(n - 1) \cup {s \o r : s \in Retries(n - 1), r \in Rounds}

\* the deltas with at most n free entries or at most k rounds of retries
Deltas(n, k) == SeqsUpTo(Calls \cup Results \cup Others, n) \cup Retries(k)

InitParser ==
    /\ registered = {"p1"}
    /\ fileSize = [f \in Files |-> IF f = "a" THEN 1024 ELSE 512]
    /\ dirty = [f \in Files |-> FALSE]
    /\ timeouts = {}
    /\ debounceTimers = EmptyMap
    /\ processingQueue = [p \in Projects |-> FALSE]
    /\ activeWatchers = [p \in Projects |-> FALSE]
    /\ catchup = [p \in Projects |-> [pc |-> "pending", queue |-> <<>>]]
    /\ cycles = {}
    /\ running = Idle
    /\ stateFile = [p \in Projects |-> DefaultState]
    /\ artifact = [p \in Projects |-> <<TopHeader>>]
    /\ lock = [p \in Projects |-> FALSE]
    /\ truncated = {}
    /\ meddles = 0
    /\ seal = NoSeal
    /\ projectDirs = Projects
    /\ configWatcher = "idle"
    /\ claudeDirs = Projects
    /\ burst = EmptyMap
    /\ lastRead = EmptyMap
    /\ consumed = EmptyMap
    /\ missed = {}
    /\ entries \in Deltas(MaxEntries, MaxAttempts)
    /\ idx = 1
    /\ parts = <<>>
    /\ walked = <<>>
    /\ raw = NoRaw

NextParser ==
    \/ formatWithChainDetection_single
    \/ formatWithChainDetection_chain
    \/ formatWithChainDetection_entry

ParserSpec == InitParser /\ [][NextParser]_vars

(* ------------------------------------------------------------------ *)
(* parser.js: parseConversationDelta, from the lines read to the       *)
(* return                                                              *)
(* ------------------------------------------------------------------ *)
\* a line of the delta: blank (empty or white space), text that
\* JSON.parse rejects, or the JSON text of an entry; with its length
BlankLine == [kind |-> "blank", entry |-> NoEntry, bytes |-> 1]
BadLine == [kind |-> "bad", entry |-> NoEntry, bytes |-> 12]
JsonLine(e) == [kind |-> "json", entry |-> e, bytes |-> 40]

\* variant: a line that does not parse ends the loop
AfterBadLine_abort(rest) == <<>>
\* the catch block: `continue` with the lines that follow
AfterBadLine(rest) == rest

\* split, filter(l => l.trim()) and the loop over JSON.parse
RECURSIVE ParseLines(_)
ParseLines(lines) ==
    IF lines = <<>> THEN <<>>
    ELSE IF Head(lines).kind = "blank" THEN ParseLines(Tail(lines))
    ELSE IF Head(lines).kind = "json"
    THEN <<Head(lines).entry>> \o ParseLines(Tail(lines))
    ELSE ParseLines(AfterBadLine(Tail(lines)))

RECURSIVE LineBytes(_)
\* the bytes of the lines, each with its newline
LineBytes(lines) ==
    IF lines = <<>> THEN 0 ELSE Head(lines).bytes + 1 + LineBytes(Tail(lines))

parseConversationDelta_decode ==
    /\ raw.pc = "read"
    /\ entries' = ParseLines(raw.lines)
    /\ raw' = [raw EXCEPT !.pc = "decoded"]
    /\ UNCHANGED <<idx, parts, walked, daemonVars>>

\* return { text: parts.join('\n'), newOffset: stat.size }
parseConversationDelta_return ==
    /\ raw.pc = "decoded"
    /\ idx > Len(entries)
    /\ raw' = [raw EXCEPT !.pc = "returned", !.newOffset = raw.size]
    /\ UNCHANGED <<entries, idx, parts, walked, daemonVars>>

MaxLines == 4
LinePool ==
    {BlankLine, BadLine, JsonLine(Commentary), JsonLine(Success),
     JsonLine(Failure("EACCES: permission denied")),
     JsonLine(Entry("assistant", NoId, FALSE,
                    <<ToolUse("Edit", [file_path |-> "f1", new_string |-> "x"])>>))}

\* the bytes between the stored offset and the end of the file
RawReads ==
    {[pc |-> "read", lines |-> ls, fromOffset |-> o,
      size |-> o + LineBytes(ls), newOffset |-> o] :
        ls \in SeqsUpTo(LinePool, MaxLines), o \in {0, 1024}}

InitDecode ==
    /\ registered = {"p1"}
    /\ fileSize = [f \in Files |-> IF f = "a" THEN 1024 ELSE 512]
    /\ dirty = [f \in Files |-> FALSE]
    /\ timeouts = {}
    /\ debounceTimers = EmptyMap
    /\ processingQueue = [p \in Projects |-> FALSE]
    /\ activeWatchers = [p \in Projects |-> FALSE]
    /\ catchup = [p \in Projects |-> [pc |-> "pending", queue |-> <<>>]]
    /\ cycles = {}
    /\ running = Idle
    /\ stateFile = [p \in Projects |-> DefaultState]
    /\ artifact = [p \in Projects |-> <<TopHeader>>]
    /\ lock = [p \in Projects |-> FALSE]
    /\ truncated = {}
    /\ meddles = 0
    /\ seal = NoSeal
    /\ projectDirs = Projects
    /\ configWatcher = "idle"
    /\ claudeDirs = Projects
    /\ burst = EmptyMap
    /\ lastRead = EmptyMap
    /\ consumed = EmptyMap
    /\ missed = {}
    /\ entries = <<>>
    /\ idx = 1
    /\ parts = <<>>
    /\ walked = <<>>
    /\ raw \in RawReads

NextDecode ==
    \/ parseConversationDelta_decode
    \/ NextParser
    \/ parseConversationDelta_return

DecodeSpec == InitDecode /\ [][NextDecode]_vars

(* ------------------------------------------------------------------ *)
(* Properties                                                          *)
(* ------------------------------------------------------------------ *)
\* the cycle c takes a step of its own (for a cycle that is not waiting)
Steps(c) == c \in cycles /\ c \notin cycles'
\* the cycle c after the step, if it is still in flight
After(c) == {d \in cycles' : d.id = c.id}
Offset(f) == getFileOffset(stateFile[ProjectOf(f)], f)

\* C1: at most one processing cycle is in flight per project at any
\* time: no second cycle of a project exists while a first one does,
\* whatever triggers arrive meanwhile.
C1_OneCycleInFlight ==
    \A p \in Projects : Cardinality(ActiveCycles(p)) <= 1

\* a cycle is suspended in its lock wait, and the trigger of another
\* notification of the same project has fired and was dropped
C1_TriggerDropped ==
    \E c \in cycles :
        /\ c.pc = "lockwait"
        /\ \E f \in missed :
             /\ ProjectOf(f) = ProjectOf(c.file)
             /\ f \notin DOMAIN debounceTimers
             /\ ~dirty[f]

Fired(t) ==
    /\ t \in timeouts
    /\ t.remaining = 0
    /\ t \notin timeouts'
    /\ ~(dirty[t.path] /\ ~dirty'[t.path])

IsAppend(p) ==
    /\ artifact'[p] # artifact[p]
    /\ artifact'[p] # <<>>
    /\ artifact'[p][Len(artifact'[p])] = Section("obs")

\* C4: the append path writes to the artifact only while the lock marker
\* of the project is absent, so an append never happens during a
\* compaction of the same artifact.
C4_AppendOnlyUnlocked ==
    [][\A p \in Projects : IsAppend(p) => ~lock[p] /\ ~Compacting(p)]_vars

\* a cycle found the marker, waited, and appended after it was removed
C4_AppendedAfterWait ==
    \E c \in cycles : c.appended /\ c.retries >= 1

C6_BoundedLockWait ==
    /\ [](\A c \in cycles : c.retries <= LOCK_MAX_RETRIES)
    /\ [][\A c \in cycles :
            LET p == ProjectOf(c.file) IN
            /\ (Steps(c) /\ c.pc = "append" /\ lock[p] /\ c.retries < LOCK_MAX_RETRIES)
               => /\ After(c) = {[c EXCEPT !.pc = "lockwait",
                                           !.wait = LOCK_RETRY_DELAY_MS]}
                  /\ artifact' = artifact
            /\ (Steps(c) /\ c.pc = "append" /\ lock[p] /\ c.retries = LOCK_MAX_RETRIES)
               => /\ After(c) = {[c EXCEPT !.pc = "finish"]}
                  /\ ~c.appended
                  /\ artifact' = artifact
            /\ (Steps(c) /\ c.pc = "append" /\ ~lock[p])
               => \/ After(c) = {} /\ artifact' = artifact
                  \/ /\ artifact'[p] = Appended(artifact[p], c.observations)
                     /\ \A d \in After(c) : d.appended
            /\ (Steps(c) /\ c.pc = "lockwait" /\ c.wait = 0)
               => After(c) = {[c EXCEPT !.pc = "append", !.retries = c.retries + 1]}
            /\ (c.pc = "finish") => After(c) \subseteq {c}]_vars

\* a cycle gave up its append after the last retry
C6_Abandoned ==
    \E c \in cycles :
        /\ c.pc = "finish"
        /\ Truthy(c.observations)
        /\ ~c.appended
        /\ c.retries = LOCK_MAX_RETRIES
        /\ lock[ProjectOf(c.file)]

\* C7: the persisted offset of a tracked file never decreases, and a
\* tracked file stays tracked, whatever happens to the log file.
C7_OffsetMonotone ==
    [][\A p \in Projects : \A f \in DOMAIN stateFile[p].files :
          /\ f \in DOMAIN stateFile'[p].files
          /\ stateFile'[p].files[f].offset >= stateFile[p].files[f].offset]_vars

\* a file shrank below its persisted offset while a cycle was between
\* its size check and its read; the cycle read nothing and the offset
\* kept its value
C7_ShrunkBelowOffset ==
    \E f \in truncated \cap DOMAIN fileSize :
        /\ f \in DOMAIN lastRead
        /\ lastRead[f].from = lastRead[f].to
        /\ Offset(f) > fileSize[f]
        /\ Offset(f) = lastRead[f].to

ConsumedTo(f) == IF f \in DOMAIN consumed THEN consumed[f] ELSE 0
\* the cycle c reads its delta in this step
Reads(c) == Steps(c) /\ c.pc = "parse" /\ c.file \in DOMAIN fileSize
\* the cycle c saves the cursor record in this step
Saves(c) == Steps(c) /\ stateFile' # stateFile

\* C8 (as stated): over the successive cycles of an append-only file the
\* ranges read are contiguous and do not overlap: each cycle's range
\* starts where the range of the cycle before it ended.
C8_NoByteTwice ==
    [][\A c \in cycles :
          (Reads(c) /\ c.file \notin truncated /\ c.file \in DOMAIN lastRead)
          => lastRead'[c.file].from = lastRead[c.file].to]_vars

\* C8 (amended): a cycle reads the range from the stored offset to the
\* size the file has at the read, and the offset it saves is the end of
\* that range; over the successive cycles of an append-only file, each
\* range starts where the range of the last cycle that saved ended.
C8_SavedRangesContiguous ==
    [][\A c \in cycles :
          /\ (Reads(c) /\ c.file \notin truncated)
             => lastRead'[c.file] = [from |-> ConsumedTo(c.file),
                                     to |-> fileSize[c.file]]
          /\ (Reads(c) /\ c.file \notin truncated)
             => c.offset = Offset(c.file)
          /\ (Saves(c) /\ c.file \in DOMAIN lastRead')
             => stateFile'[ProjectOf(c.file)].files[c.file].offset
                  = lastRead'[c.file].to]_vars

\* an append-only file was read a second time, from the end of the range
\* saved before
C8_SecondRange ==
    \E f \in DOMAIN lastRead :
        /\ f \notin truncated
        /\ lastRead[f].from > 0
        /\ lastRead[f].to > lastRead[f].from
        /\ Offset(f) = lastRead[f].to

\* C9: when the persisted offset of a file equals its size, a cycle on
\* the file ends at its size check: the cursor record, the counters and
\* the artifact are unchanged and no pass is run.
C9_NoOpWhenCaughtUp ==
    [][\A c \in cycles :
          (/\ Steps(c)
           /\ c.pc = "stat"
           /\ c.file \in DOMAIN fileSize
           /\ Offset(c.file) = fileSize[c.file])
          => /\ After(c) = {}
             /\ stateFile' = stateFile
             /\ artifact' = artifact]_vars

\* a trigger has started a cycle on a file whose offset equals its size
C9_CycleOnCaughtUpFile ==
    \E c \in cycles :
        /\ c.pc = "stat"
        /\ c.origin = "live"
        /\ c.file \in DOMAIN fileSize
        /\ Offset(c.file) = fileSize[c.file]

\* the daemon is at rest: no handler runs or waits, no timer is pending,
\* no event is undelivered
Quiescent ==
    /\ running = Idle
    /\ cycles = {}
    /\ timeouts = {}
    /\ \A f \in Files : ~dirty[f]
    /\ \A p \in registered : catchup[p].pc \in {"done", "failed"}
\* f has bytes past its persisted offset that a cycle would process
HasUnread(f) ==
    /\ f \in DOMAIN fileSize
    /\ fileSize[f] >= MIN_FILE_SIZE_BYTES
    /\ fileSize[f] > Offset(f)

\* C10: a change notified while a cycle of the project was in flight is
\* not lost: the daemon does not come to rest while the file has unread
\* bytes and no cycle was admitted for it since.
C10_NoChangeLost ==
    Quiescent => \A f \in missed : ~HasUnread(f)

\* C11: a trigger that fires while the slot of its project is set has no
\* effect: no cycle starts, nothing is queued and no timer is armed for
\* the path, the cursor record, the artifact, the marker and the counters
\* of the cycle in progress are unchanged, and the slot stays set.
C11_DroppedTriggerNoEffect ==
    [][\A t \in timeouts :
          (Fired(t) /\ processingQueue[ProjectOf(t.path)])
          => /\ cycles' = cycles
             /\ processingQueue' = processingQueue
             /\ stateFile' = stateFile
             /\ artifact' = artifact
             /\ lock' = lock
             /\ catchup' = catchup
             /\ running' = Idle
             /\ timeouts' = timeouts \ {t}
             /\ t.path \notin DOMAIN debounceTimers']_vars

\* a trigger was dropped for a file with unread bytes, and the cycle it
\* met still waits and still holds the slot
C11_DroppedAndStillHeld ==
    \E c \in cycles :
        /\ c.pc = "lockwait"
        /\ processingQueue[ProjectOf(c.file)]
        /\ \E f \in missed \ {c.file} :
             /\ ProjectOf(f) = ProjectOf(c.file)
             /\ f \notin DOMAIN debounceTimers
             /\ ~dirty[f]
             /\ HasUnread(f)

\* the cycle c is in its compaction attempt
InAttempt(c) == c.pc \in {"runReflector", "reflect", "release"}

C12_AtThresholdNoAttempt ==
    \E c \in cycles :
        /\ c.pc = "finish"
        /\ c.appended
        /\ ~c.reflected
        /\ SeqBytes(artifact[ProjectOf(c.file)]) = 4 * Threshold(ProjectOf(c.file))

\* C13: the cursor record of a project is changed only by the cycle that
\* holds its slot, so no update to it is lost: the save of a cycle
\* changes no entry of a file other than its own.
C13_CycleSaveKeepsOthers ==
    [][\A c \in cycles :
          Saves(c)
          => \A f \in DOMAIN stateFile[ProjectOf(c.file)].files \ {c.file} :
                /\ f \in DOMAIN stateFile'[ProjectOf(c.file)].files
                /\ stateFile'[ProjectOf(c.file)].files[f]
                     = stateFile[ProjectOf(c.file)].files[f]]_vars


\* the message.id of the entry of the a-th attempt of a chain
IdOf(chain, a) == entries[chain.attempts[a].at].id

\* C14: a call entry that shares its message.id with a sibling call of the
\* same turn is never folded into a retry chain together with that
\* sibling, wherever the two stand in the sequence: no two attempts of a
\* detected chain carry the same message.id.
C14_SiblingsNeverFolded ==
    \A k \in 1..Len(walked) :
        \A a, b \in 1..Len(walked[k].chain.attempts) :
            a # b /\ IdOf(walked[k].chain, a) # NoId
            => IdOf(walked[k].chain, a) # IdOf(walked[k].chain, b)

\* the part of C14 about the chain-starting entry: no attempt after the
\* first carries the message.id of the first
C14_NoAttemptHasFirstId ==
    \A k \in 1..Len(walked) :
        \A a \in 2..Len(walked[k].chain.attempts) :
            IdOf(walked[k].chain, 1) # NoId
            => IdOf(walked[k].chain, a) # IdOf(walked[k].chain, 1)

\* two failing calls with the id of the first entry stand in the delta and
\* each was rendered as a chain of its own
C14_SiblingsKeptApart ==
    /\ Len(walked) >= 2
    /\ Len(walked[1].chain.attempts) = 1
    /\ Len(walked[2].chain.attempts) = 1
    /\ IdOf(walked[1].chain, 1) # NoId
    /\ IdOf(walked[2].chain, 1) = IdOf(walked[1].chain, 1)
    /\ walked[2].chain.attempts[1].errorBrief = walked[1].chain.attempts[1].errorBrief
    /\ walked[2].chain.attempts[1].toolUses = walked[1].chain.attempts[1].toolUses


\* the lines pushed by the first n iterations of the walk
RECURSIVE LinesOf(_, _)
LinesOf(w, n) == IF n = 0 THEN <<>> ELSE LinesOf(w, n - 1) \o w[n].lines

IsToolLine(line) == line.tag = "Tool"
IsMarker(line) == line.tag = "Tool error"
IsSummary(line) == line.tag = "Retry chain"
IsResultLine(line) == line.tag = "Tool Result"

\* C15: a detected chain of exactly one failed attempt is rendered as the
\* tool-call lines of the failing entry followed by exactly one
\* `[Tool error: <brief>]` line, and never as a retry-chain summary.
C15_SingleFailureRendering ==
    /\ parts = LinesOf(walked, Len(walked))
    /\ \A k \in 1..Len(walked) :
          Len(walked[k].chain.attempts) = 1
          => /\ walked[k].lines
                  = SelectSeq(formatEntry(entries[walked[k].start]), IsToolLine)
                    \o <<Line("Tool error",
                              <<classifyError(getErrorResults(
                                    entries[walked[k].start + 1]))>>)>>
             /\ Len(SelectSeq(walked[k].lines, IsMarker)) = 1
             /\ SelectSeq(walked[k].lines, IsSummary) = <<>>

\* an entry with two calls failed once: two tool-call lines and the marker
C15_TwoCallsOneMarker ==
    \E k \in 1..Len(walked) :
        /\ Len(walked[k].chain.attempts) = 1
        /\ Len(walked[k].lines) = 3
        /\ IsMarker(walked[k].lines[3])
        /\ parts # <<>>


\* the chain found by the k-th iteration of the walk, and its parts
ChainOf(k) == walked[k].chain
Folded(k) == Len(walked[k].chain.attempts)
SigOf(k, a) == InputSig(walked[k].chain.attempts[a])
BriefOf(k, a) == walked[k].chain.attempts[a].errorBrief
SameSigs(k) == \A a \in 1..Folded(k) : SigOf(k, a) = SigOf(k, 1)
SameBriefs(k) == \A a \in 1..Folded(k) : BriefOf(k, a) = BriefOf(k, 1)
\* the name of the first call of the chain-starting entry
NameOf(k) == getToolUses(entries[walked[k].start])[1].name

\* C16: a chain of N >= 2 failed attempts whose input summaries are all
\* identical is rendered as one summary `[Retry chain: <name> xN failed]`,
\* N the number of folded attempts, with exactly one `Input:` line and
\* exactly one `Error:` line and no detail per attempt.
C16_BlindRetryRendering ==
    \A k \in 1..Len(walked) :
        Folded(k) >= 2 /\ SameSigs(k)
        => walked[k].lines
             = <<Line("Retry chain",
                      <<NameOf(k), Folded(k),
                        << <<"Input", SigOf(k, 1)>>, <<"Error", BriefOf(k, 1)>> >> >>)>>

\* three attempts with the same input summary were folded, although the
\* inputs themselves differ, and the summary was pushed
C16_ThreeBlindRetries ==
    \E k \in 1..Len(walked) :
        /\ Folded(k) = 3
        /\ SameSigs(k)
        /\ ~AllIdentical_raw(ChainOf(k).attempts)
        /\ parts # <<>>
        /\ IsSummary(parts[Len(parts)])

\* C17: a chain of N >= 2 failed attempts whose input summaries are not all
\* identical is rendered with `First:` the first attempt's input, `Last:`
\* the last attempt's input, then `Error:` with the shared brief if all
\* briefs are equal and otherwise `Last error:` with the last attempt's
\* brief; nothing of a middle attempt is in the output.
C17_AdaptiveRetryRendering ==
    \A k \in 1..Len(walked) :
        Folded(k) >= 2 /\ ~SameSigs(k)
        => walked[k].lines
             = <<Line("Retry chain",
                      <<NameOf(k), Folded(k),
                        << <<"First", SigOf(k, 1)>>,
                           <<"Last", SigOf(k, Folded(k))>>,
                           IF SameBriefs(k)
                           THEN <<"Error", BriefOf(k, 1)>>
                           ELSE <<"Last error", BriefOf(k, Folded(k))>> >> >>)>>

\* three attempts were folded whose middle one has an input and an error
\* that neither the first nor the last attempt has
C17_MiddleAttemptOmitted ==
    \E k \in 1..Len(walked) :
        /\ Folded(k) = 3
        /\ SigOf(k, 2) \notin {SigOf(k, 1), SigOf(k, 3)}
        /\ BriefOf(k, 2) \notin {BriefOf(k, 1), BriefOf(k, 3)}
        /\ Len(walked[k].lines) = 1


\* a result entry with an operation result that is not flagged as error
HasSuccess(entry) ==
    /\ entry.type \in {"user", "human"}
    /\ \E b \in 1..Len(entry.content) :
          entry.content[b].type = "tool_result" /\ ~entry.content[b].is_error
\* a result entry with a result that is not flagged as error and has text
HasOutput(entry) ==
    /\ entry.type \in {"user", "human"}
    /\ \E b \in 1..Len(entry.content) :
          /\ entry.content[b].type = "tool_result"
          /\ ~entry.content[b].is_error
          /\ entry.content[b].text # ""
\* entry j is a call and entry j + 1 is its result, not all-error
SucceedsAt(j) ==
    /\ j + 1 <= Len(entries)
    /\ getToolUses(entries[j]) # <<>>
    /\ HasSuccess(entries[j + 1])
\* the iteration of the walk that started at entry j, 0 if there is none
StepAt(j) ==
    IF \E k \in 1..Len(walked) : walked[k].start = j
    THEN CHOOSE k \in 1..Len(walked) : walked[k].start = j
    ELSE 0

\* C18: when failed attempts of a tool are followed by a call of the same
\* tool whose result is not all-error, the chain ends before that call:
\* the call is no attempt of any chain and is rendered normally, as its
\* tool-call line followed by its `[Tool Result]` line (a result without
\* text has no line in any rendering); after exactly one
\* failure the output is the first tool-call line, the error marker, then
\* the lines of the successful call.
C18_SuccessEndsChain ==
    \A j \in 1..Len(entries) :
        SucceedsAt(j)
        => /\ \A k \in 1..Len(walked) :
                 /\ \A a \in 1..Folded(k) : ChainOf(k).attempts[a].at # j
                 /\ walked[k].start < j /\ Folded(k) >= 1
                    /\ getToolUses(entries[j])[1].name = NameOf(k)
                    /\ j <= ChainOf(k).endIndex
                    => ChainOf(k).endIndex = j
           /\ idx > j
              => /\ StepAt(j) # 0
                 /\ walked[StepAt(j)].chain = NoChain
                 /\ walked[StepAt(j)].lines = formatEntry(entries[j])
                 /\ \E n \in 1..Len(formatEntry(entries[j])) :
                       IsToolLine(formatEntry(entries[j])[n])
           /\ idx > j + 1
              => /\ StepAt(j + 1) = StepAt(j) + 1
                 /\ walked[StepAt(j + 1)].chain = NoChain
                 /\ walked[StepAt(j + 1)].lines = formatEntry(entries[j + 1])
                 /\ HasOutput(entries[j + 1])
                    => \E n \in 1..Len(formatEntry(entries[j + 1])) :
                          IsResultLine(formatEntry(entries[j + 1])[n])
           /\ /\ idx > j + 1
              /\ StepAt(j) > 1
              /\ Folded(StepAt(j) - 1) = 1
              /\ walked[StepAt(j) - 1].start = j - 2
              => LinesOf(walked, StepAt(j) + 1)
                   = LinesOf(walked, StepAt(j) - 2)
                     \o SelectSeq(formatEntry(entries[j - 2]), IsToolLine)
                     \o <<Line("Tool error", <<BriefOf(StepAt(j) - 1, 1)>>)>>
                     \o formatEntry(entries[j])
                     \o formatEntry(entries[j + 1])

\* a call failed once, the same call was repeated and succeeded, and the
\* four lines are rendered
C18_OneFailureThenSuccess ==
    /\ Len(entries) = 4
    /\ idx = 5
    /\ Len(walked) = 3
    /\ Folded(1) = 1
    /\ SucceedsAt(3)
    /\ getToolUses(entries[3]) = getToolUses(entries[1])
    /\ entries[3].id # entries[1].id
    /\ Len(parts) = 4
    /\ IsToolLine(parts[1]) /\ IsMarker(parts[2])
    /\ IsToolLine(parts[3]) /\ IsResultLine(parts[4])


IsFailedResult(b) == b.type = "tool_result" /\ b.is_error
IsShownResult(b) == b.type = "tool_result" /\ ~b.is_error /\ b.text # ""
\* what a `[Tool Result]` line of an error-flagged result would hold
ErrorBodies ==
    UNION {{<<truncateText(entries[j].content[b].text, MAX_TOOL_RESULT_CHARS)>> :
               b \in {n \in 1..Len(entries[j].content) :
                          IsFailedResult(entries[j].content[n])}} :
           j \in 1..Len(entries)}
\* the index after the entries that the k-th iteration of the walk consumed
EndOf(k) == IF ChainOf(k) = NoChain THEN walked[k].start + 1 ELSE ChainOf(k).endIndex
Count(lines, Test(_)) == Len(SelectSeq(lines, Test))

\* C19: an error-flagged operation result is never rendered as a
\* `[Tool Result]` line, and every failed result is reported at most once:
\* the iterations of the walk consume disjoint runs of entries, a failed
\* result belongs to at most one attempt of the chain of one iteration,
\* and that iteration pushes one error marker or one retry-chain summary,
\* never both and never two.
C19_FailuresReportedOnce ==
    /\ \A n \in 1..Len(parts) :
          IsResultLine(parts[n]) => parts[n].body \notin ErrorBodies
    /\ \A k \in 1..Len(walked) :
          /\ walked[k].start < EndOf(k)
          /\ k < Len(walked) => walked[k + 1].start = EndOf(k)
          /\ k = Len(walked) => idx = EndOf(k)
          /\ \A a \in 1..Folded(k) :
                /\ walked[k].start <= ChainOf(k).attempts[a].at
                /\ ChainOf(k).attempts[a].at + 1 < EndOf(k)
                /\ a > 1 => ChainOf(k).attempts[a - 1].at + 1 < ChainOf(k).attempts[a].at
          /\ Count(walked[k].lines, IsMarker) = IF Folded(k) = 1 THEN 1 ELSE 0
          /\ Count(walked[k].lines, IsSummary) = IF Folded(k) >= 2 THEN 1 ELSE 0
          /\ Count(walked[k].lines, IsResultLine)
               = IF Folded(k) = 0 /\ entries[walked[k].start].type \in {"user", "human"}
                 THEN Count(entries[walked[k].start].content, IsShownResult)
                 ELSE 0

\* a result entry with a failed and a successful result was rendered after
\* a single failure: the marker for the one, and of the other entry only
\* the successful result
C19_MixedResultRendered ==
    /\ Len(walked) = 2
    /\ Folded(1) = 1
    /\ Folded(2) = 0
    /\ \E b \in 1..Len(entries[3].content) : IsFailedResult(entries[3].content[b])
    /\ parts[Len(parts)] = Line("Tool Result", <<Cut(LongOutput)>>)
    /\ Count(parts, IsMarker) = 1
    /\ Count(parts, IsResultLine) = 1


\* the cycle c is at the end of processFile with observations that
\* appendObservations gave up on
Abandoned(c) == c.pc = "finish" /\ Truthy(c.observations) /\ ~c.appended

\* C20: a cycle whose append was abandoned, the marker having stayed past
\* the retry budget, still stores the new offset of its file: its save
\* sets the offset to the end of the range it read, the artifact has no
\* section for that range, and every later read of a file starts at or
\* after the end of the last range saved, so the range is not read again.
C20_AbandonedDeltaSkipped ==
    [][\A c \in cycles :
          /\ (Steps(c) /\ Abandoned(c))
             => /\ c.retries = LOCK_MAX_RETRIES
                /\ c.newOffset > c.offset
                /\ artifact' = artifact
                /\ Saves(c)
                   => /\ getFileOffset(stateFile'[ProjectOf(c.file)], c.file) = c.newOffset
                      /\ c.file \in DOMAIN consumed'
                      /\ consumed'[c.file] = c.newOffset
          /\ Reads(c)
             => /\ lastRead'[c.file].from = c.offset
                /\ c.offset >= ConsumedTo(c.file)]_vars

\* a range of a file was saved as processed with observations counted
\* for it, while no observer pass of the project ever appended anything
C20_SavedWithoutAppend ==
    \E f \in DOMAIN consumed :
        /\ cycles = {}
        /\ f \in DOMAIN stateFile[ProjectOf(f)].files
        /\ stateFile[ProjectOf(f)].files[f].observationCount = 1
        /\ stateFile[ProjectOf(f)].totalObserverPasses = 0
        /\ Offset(f) = consumed[f]
        /\ Offset(f) = lastRead[f].to
        /\ lastRead[f].to > lastRead[f].from
        /\ artifact[ProjectOf(f)] = <<TopHeader>>


\* C21: when the extraction pass fails, prints nothing or prints the
\* sentinel, the cycle treats it as no result: it goes from the pass
\* straight to the end of processFile, nothing is appended, no compaction
\* is attempted and no pass is counted, and its last step stores the new
\* offset with an observation count of 0 added and releases the slot.
C21_NoResultFromPass ==
    [][\A c \in cycles :
          LET p == ProjectOf(c.file) IN
          /\ (Steps(c) /\ c.pc = "parse")
             => \A d \in After(c) :
                   /\ d.observations \in {runObserver(out) : out \in PassOutcomes}
                   /\ d.observations \in {runObserver("fails"), runObserver("empty"),
                                          runObserver("sentinel")}
                      => /\ d.pc = "finish"
                         /\ d.state = c.state
                         /\ ~d.appended /\ ~d.reflected
                         /\ artifact' = artifact /\ lock' = lock
                         /\ stateFile' = stateFile
                         /\ processingQueue'[p]
          /\ (Steps(c) /\ c.pc = "finish" /\ ~c.appended)
             => /\ After(c) = {}
                /\ artifact' = artifact /\ lock' = lock
                /\ ~processingQueue'[p]
                /\ ~Abandoned(c) /\ Saves(c)
                   => stateFile'[p]
                        = updateFileOffset(stateFile[p], c.file, c.newOffset, 0)]_vars

\* the cycle of a pass that printed nothing is at the end of processFile
\* with a range read, nothing appended and the slot held
C21_EmptyOutputAtEnd ==
    \E c \in cycles :
        /\ c.pc = "finish"
        /\ c.observations = ""
        /\ c.newOffset > c.offset
        /\ ~c.appended
        /\ processingQueue[ProjectOf(c.file)]


\* C22: when the compaction pass throws, times out or returns less than
\* MIN_CONSOLIDATED_CHARS characters, the artifact after the attempt is
\* the artifact before it, the attempt reports failure, and the cycle
\* changes neither totalReflectorPasses nor lastReflection: an attempt
\* either leaves the artifact as it is and fails, or replaces it by a
\* text of the minimum length or more and succeeds.
C22_FailedCompactionKeepsArtifact ==
    [][\A c \in cycles :
          LET p == ProjectOf(c.file) IN
          /\ (Steps(c) /\ c.pc = "reflect")
             => \A d \in After(c) :
                   /\ d.pc = "release"
                   /\ d.state = c.state
                   /\ \/ ~d.reflected /\ artifact' = artifact
                      \/ /\ d.reflected
                         /\ artifact'[p] = <<Consolidated>>
                         /\ SeqBytes(artifact'[p]) > MIN_CONSOLIDATED_CHARS
          /\ (Steps(c) /\ c.pc = "release" /\ ~c.reflected)
             => /\ After(c) = {[c EXCEPT !.pc = "finish"]}
                /\ artifact' = artifact
          /\ (Steps(c) /\ c.pc = "finish" /\ c.appended /\ ~c.reflected /\ Saves(c))
             => /\ stateFile'[p].totalReflectorPasses = stateFile[p].totalReflectorPasses
                /\ stateFile'[p].lastReflection = stateFile[p].lastReflection]_vars

\* a compaction attempt on an artifact over the threshold has failed: the
\* marker is still there, the artifact is as the append left it
C22_AttemptFailedArtifactKept ==
    \E c \in cycles :
        /\ c.pc = "release"
        /\ ~c.reflected
        /\ lock[ProjectOf(c.file)]
        /\ exceedsThreshold(artifact[ProjectOf(c.file)], Threshold(ProjectOf(c.file)))
        /\ artifact[ProjectOf(c.file)][Len(artifact[ProjectOf(c.file)])] = Section(c.observations)


(* ------------------------------------------------------------------ *)
(* C23: when a cycle of one project ends, by an exception or otherwise, *)
(* nothing of any other project moves: the other projects' slots,       *)
(* catch-ups, watchers, debounce timers and cycles in flight are what   *)
(* they were, and the event loop is free again for them (or goes back   *)
(* to the catch-up of the cycle's own project).  Checked with both      *)
(* projects registered.                                                 *)
(* ------------------------------------------------------------------ *)
TimersOf(q, ts) == {t \in ts : ProjectOf(t.path) = q}

CyclesOf(q, cs) == {c \in cs : ProjectOf(c.file) = q}

\* C23: a step that ends a cycle of project p leaves every other project's
\* slot, catch-up, watcher, timers and cycles unchanged and frees the
\* event loop.
C23_CycleEndContained ==
    [][\A c \in cycles :
          (\A d \in cycles' : d.id # c.id) =>
              LET p == ProjectOf(c.file) IN
              /\ running' \in {Idle, CatchupTok(p)}
              /\ \A q \in Projects \ {p} :
                    /\ processingQueue'[q] = processingQueue[q]
                    /\ catchup'[q] = catchup[q]
                    /\ activeWatchers'[q] = activeWatchers[q]
                    /\ TimersOf(q, timeouts') = TimersOf(q, timeouts)
                    /\ CyclesOf(q, cycles') = CyclesOf(q, cycles)]_vars

\* witness for C23: the catch-up of one project ended with an exception,
\* and a cycle of the other project has just been admitted
C23_OtherProjectStillServed ==
    \E p \in Projects :
        /\ catchup[p].pc = "failed"
        /\ ~processingQueue[p]
        /\ \E c \in cycles :
              /\ ProjectOf(c.file) # p
              /\ c.pc = "stat"
              /\ running = CycleTok(c)


(* ------------------------------------------------------------------ *)
(* C24: a debounce timer that fires when the project's directory is    *)
(* gone starts no cycle, and a cycle that finds its log file deleted   *)
(* ends at once; either way the state file, the artifact and the       *)
(* counters are what they were and the event loop is free again.  The  *)
(* cycle that found its file deleted clears the slot; the timer        *)
(* callback does not touch the slot, which is then held only if        *)
(* another cycle of the project is still in flight.                    *)
(* ------------------------------------------------------------------ *)
\* the timeout t fires in this step and the project's directory is gone
FiresWithoutDir(t) ==
    /\ t \in timeouts
    /\ t.remaining = 0
    /\ running = Idle
    /\ ProjectOf(t.path) \notin projectDirs
    /\ \A u \in timeouts' : u.path # t.path

\* the cycle c finds in this step that its log file is deleted
StartsWithoutFile(c) ==
    /\ c \in cycles
    /\ c.pc = "stat"
    /\ running = CycleTok(c)
    /\ c.file \notin DOMAIN fileSize
    /\ \A d \in cycles' : d.id # c.id

\* C24 (amended): both silent ends leave state file and artifact unchanged
\* and free the event loop; the deleted-file cycle clears the slot, the
\* timer callback leaves it to the cycle in flight, if any.
C24_SilentEnd ==
    [][/\ \A t \in timeouts :
             FiresWithoutDir(t) =>
                 LET p == ProjectOf(t.path) IN
                 /\ stateFile' = stateFile
                 /\ artifact' = artifact
                 /\ cycles' = cycles
                 /\ running' = Idle
                 /\ processingQueue' = processingQueue
                 /\ processingQueue'[p] => CyclesOf(p, cycles') # {}
       /\ \A c \in cycles :
             StartsWithoutFile(c) =>
                 LET p == ProjectOf(c.file) IN
                 /\ stateFile' = stateFile
                 /\ artifact' = artifact
                 /\ ~processingQueue'[p]
                 /\ CyclesOf(p, cycles') = {}
                 /\ running' \in {Idle, CatchupTok(p)}]_vars

\* the statement as it is written: the slot is clear after the timer's
\* callback (violated while another cycle of the project waits for the
\* marker)
C24_SlotClearAfterTimer ==
    [][\A t \in timeouts :
          FiresWithoutDir(t) => ~processingQueue'[ProjectOf(t.path)]]_vars

\* witness for C24: a timer is due for a project whose directory is gone,
\* while a cycle for another file of the project waits for the marker
C24_TimerDueDirGone ==
    \E t \in timeouts :
        /\ t.remaining = 0
        /\ running = Idle
        /\ ProjectOf(t.path) \notin projectDirs
        /\ \E c \in cycles :
              /\ ProjectOf(c.file) = ProjectOf(t.path)
              /\ c.file # t.path
              /\ c.pc = "lockwait"


(* ------------------------------------------------------------------ *)
(* C25: after every successful append the artifact begins with the     *)
(* top-level header and ends with the new section.  A text written by  *)
(* a compaction is taken to begin with the header, as the pass is      *)
(* asked to write it.                                                  *)
(* ------------------------------------------------------------------ *)
\* the cycle c appends in this step
AppendsNow(c) ==
    /\ c \in cycles
    /\ c.pc = "append"
    /\ running = CycleTok(c)
    /\ \E d \in cycles' : d.id = c.id /\ d.appended

HasTopHeader(content) ==
    /\ content # Absent
    /\ content # <<>>
    /\ Head(content) \in {TopHeader, Consolidated}

\* C25: after a successful append the artifact begins with the top-level
\* header.
C25_HeaderAfterAppend ==
    [][\A c \in cycles :
          AppendsNow(c) => HasTopHeader(artifact'[ProjectOf(c.file)])]_vars

\* the part of C25 that holds: the artifact ends with the new section
\* and keeps what it had before
C25_SectionAtEnd ==
    [][\A c \in cycles :
          AppendsNow(c) =>
              LET p == ProjectOf(c.file)
                  before == IF artifact[p] = Absent THEN <<TopHeader>>
                            ELSE artifact[p]
              IN
              /\ artifact'[p] # Absent
              /\ Len(artifact'[p]) = Len(before) + 1
              /\ artifact'[p][Len(artifact'[p])] = Section(c.observations)
              /\ SubSeq(artifact'[p], 1, Len(before)) = before]_vars

\* an append has landed in an artifact that was an empty file
C25_SectionWithoutHeader ==
    \E p \in Projects :
        /\ artifact[p] # Absent
        /\ artifact[p] # <<>>
        /\ Head(artifact[p]) = Section("obs")


(* ------------------------------------------------------------------ *)
(* C26: a project's watcher is registered only when its catch-up has    *)
(* finished: while the watcher is there, the catch-up is done and no    *)
(* catch-up cycle of the project is in flight.                          *)
(* ------------------------------------------------------------------ *)
C26_WatchingAfterCatchup ==
    \A p \in Projects :
        activeWatchers[p] =>
            /\ catchup[p].pc = "done"
            /\ \A c \in CyclesOf(p, cycles) : c.origin # "catchup"

\* the parts of C26 that hold: a catch-up takes at most MAX_CATCHUP_FILES
\* files, each above the minimum size, and its cycles hold the project's
\* slot like any other cycle
C26_CatchupThroughSlot ==
    /\ \A p \in Projects : Len(catchup[p].queue) <= MAX_CATCHUP_FILES
    /\ \A c \in cycles : c.origin = "catchup" => processingQueue[ProjectOf(c.file)]
    /\ \A p \in Projects : Cardinality(CyclesOf(p, cycles)) <= 1

\* a watcher is registered while the catch-up of its project still waits
\* for a cycle that sleeps on the marker
C26_WatcherDuringCatchup ==
    \E p \in Projects :
        /\ activeWatchers[p]
        /\ catchup[p].pc = "awaiting"
        /\ \E c \in cycles : ProjectOf(c.file) = p /\ c.pc = "lockwait"


(* ------------------------------------------------------------------ *)
(* C27: the slots of different projects are independent.  A timer that  *)
(* fires for a project whose own slot is clear starts a cycle, whatever *)
(* the other slots are, and the slot of a project changes only in a     *)
(* step in which a cycle of that same project starts or ends.           *)
(* ------------------------------------------------------------------ *)
IdsOf(q, cs) == {c.id : c \in CyclesOf(q, cs)}

\* the timeout t fires in this step
Fires(t) ==
    /\ t \in timeouts
    /\ t.remaining = 0
    /\ running = Idle
    /\ \A u \in timeouts' : u.path # t.path

\* C27: a fired timer is admitted whenever its own project's slot is
\* clear, and a slot changes only with a cycle of its own project.
C27_SlotsIndependent ==
    [][/\ \A t \in timeouts :
             (Fires(t) /\ ~processingQueue[ProjectOf(t.path)]) =>
                 /\ processingQueue'[ProjectOf(t.path)]
                 /\ \E c \in cycles' \ cycles : c.file = t.path /\ c.pc = "stat"
       /\ \A q \in Projects :
             processingQueue'[q] # processingQueue[q] =>
                 /\ IdsOf(q, cycles') # IdsOf(q, cycles)
                 /\ \A p \in Projects \ {q} :
                       /\ IdsOf(p, cycles') = IdsOf(p, cycles)
                       /\ processingQueue'[p] = processingQueue[p]]_vars

\* witness for C27: a cycle of one project has just been admitted while
\* the other project's slot is held by a cycle that sleeps on the marker
C27_BothSlotsHeld ==
    \E c \in cycles, d \in cycles :
        /\ ProjectOf(c.file) # ProjectOf(d.file)
        /\ c.pc = "stat"
        /\ c.origin = "live"
        /\ running = CycleTok(c)
        /\ d.pc = "lockwait"
        /\ \A p \in Projects : processingQueue[p]


(* ------------------------------------------------------------------ *)
(* C28: a project registered while the daemon runs, and whose log       *)
(* directory exists, eventually has its catch-up started or its watcher *)
(* registered by the running daemon, whatever projects.json and the     *)
(* log directories were when the daemon started.                        *)
(* ------------------------------------------------------------------ *)
Started(p) == activeWatchers[p] \/ catchup[p].pc # "unknown"

\* C28: a project registered while the daemon runs is eventually started.
C28_RegisteredEventuallyStarted ==
    \A p \in Projects :
        (p \notin registered) =>
            []((p \in registered /\ p \in claudeDirs) => <>Started(p))

\* a project with a log directory is registered and not started, and
\* the daemon has no watcher on projects.json and nothing left to do
C28_RegisteredNeverSeen ==
    \E p \in Projects :
        /\ p \in registered
        /\ p \in claudeDirs
        /\ ~Started(p)
        /\ configWatcher = "none"
        /\ ~ENABLED Startup


\* the part of C28 that holds: with a watcher on projects.json, a change
\* event is handled, and the projects with a log directory at that time
\* are started
C28_ChangeEventHandled ==
    [][\A p \in Projects :
          (configWatcher = "changed" /\ configWatcher' = "idle"
             /\ p \in registered /\ p \in claudeDirs /\ p \in projectDirs)
          => Started(p)']_vars

C28_ChangeEventuallyHandled == (configWatcher = "changed") ~> (configWatcher = "idle")


IsJsonLine(l) == l.kind = "json"

\* the entries of the lines that parse, in the order of the lines
Parseable(lines) ==
    [k \in 1..Len(SelectSeq(lines, IsJsonLine)) |->
        SelectSeq(lines, IsJsonLine)[k].entry]

\* the iterations of the walk cover the entries 1..n without a gap
Covers(n) ==
    /\ (n > 0) => (Len(walked) > 0 /\ walked[1].start = 1)
    /\ \A k \in 1..Len(walked) :
          EndOf(k) = IF k < Len(walked) THEN walked[k + 1].start ELSE n + 1

\* C30: the decoded entries are the parseable lines in order, all of them
\* are walked, and the returned offset is the end of the file.
C30_BadLineSkipped ==
    /\ raw.pc \in {"decoded", "returned"} => entries = Parseable(raw.lines)
    /\ raw.pc = "returned" =>
          /\ idx = Len(entries) + 1
          /\ Covers(Len(entries))
          /\ parts = LinesOf(walked, Len(walked))
          /\ raw.newOffset = raw.size
          /\ raw.size = raw.fromOffset + LineBytes(raw.lines)

\* witness for C30: the function has returned for a delta with a line
\* that does not parse followed by an entry, which is rendered
C30_EntryAfterBadLine ==
    /\ raw.pc = "returned"
    /\ \E i, j \in 1..Len(raw.lines) :
          /\ i < j
          /\ raw.lines[i].kind = "bad"
          /\ raw.lines[j] = JsonLine(Commentary)
    /\ \E k \in 1..Len(walked) :
          /\ entries[walked[k].start] = Commentary
          /\ walked[k].lines = formatEntry(Commentary)
          /\ walked[k].lines # <<>>
    /\ raw.newOffset > raw.fromOffset


(* ------------------------------------------------------------------ *)
(* C31: one pending debounce timer per path at most.  The timer map    *)
(* has an entry for a path exactly when a timer of that path is        *)
(* pending; a notification for a path leaves that path with the one    *)
(* fresh timer, a fired timer leaves its path without entry, and       *)
(* neither touches the timer or the entry of any other path.           *)
(* ------------------------------------------------------------------ *)
TimersAt(g, ts) == {t \in ts : t.path = g}

EntryAt(g, m) == IF g \in DOMAIN m THEN {m[g]} ELSE {}

\* C31: at most one pending timer per path, kept so by every notification
\* and every firing, which touch their own path only.
C31_OneTimerPerPath ==
    [][/\ \A g \in Files :
             /\ Cardinality(TimersAt(g, timeouts')) <= 1
             /\ {t.remaining : t \in TimersAt(g, timeouts')} = EntryAt(g, debounceTimers')
       /\ \A f \in Files :
             (dirty[f] /\ ~dirty'[f]) =>
                 /\ TimersAt(f, timeouts') = {Timeout(f, DEBOUNCE_MS)}
                 /\ \A g \in Files \ {f} :
                       /\ TimersAt(g, timeouts') = TimersAt(g, timeouts)
                       /\ EntryAt(g, debounceTimers') = EntryAt(g, debounceTimers)
       /\ \A t \in timeouts :
             Fires(t) =>
                 /\ t.path \notin DOMAIN debounceTimers'
                 /\ \A g \in Files \ {t.path} :
                       /\ TimersAt(g, timeouts') = TimersAt(g, timeouts)
                       /\ EntryAt(g, debounceTimers') = EntryAt(g, debounceTimers)]_vars

\* witness for C31: a path has been notified again and carries the fresh
\* timer, while the timer of another path is part-way through its interval
C31_RearmedBesideAnother ==
    \E t \in timeouts, u \in timeouts :
        /\ t.path # u.path
        /\ t.remaining = DEBOUNCE_MS
        /\ t.path \in DOMAIN burst
        /\ burst[t.path].count = 2
        /\ u.remaining > 0
        /\ u.remaining < DEBOUNCE_MS


(* ------------------------------------------------------------------ *)
(* C32: every chain the walk detects starts at an assistant entry with *)
(* a call, and every attempt of it is an assistant entry with a call,  *)
(* whose first call has the tool name of the chain's first call,       *)
(* followed by a result entry with results that are all flagged as     *)
(* error.  A result entry with a result that is not flagged starts no  *)
(* chain and adds no attempt.                                          *)
(* ------------------------------------------------------------------ *)
HasCall(e) ==
    /\ e.type = "assistant"
    /\ \E k \in 1..Len(e.content) : e.content[k].type = "tool_use"

AllFailed(e) ==
    /\ e.type \in {"user", "human"}
    /\ \E k \in 1..Len(e.content) : e.content[k].type = "tool_result"
    /\ \A k \in 1..Len(e.content) :
          e.content[k].type = "tool_result" => e.content[k].is_error

FirstCallName(e) == SelectSeq(e.content, IsToolUse)[1].name

\* C32: chains start at, and fold, only calls of one tool name followed by
\* all-error results.
C32_ChainsOfFailedCallsOnly ==
    \A k \in 1..Len(walked) :
        walked[k].chain # NoChain =>
            /\ walked[k].chain.attempts[1].at = walked[k].start
            /\ \A a \in 1..Len(walked[k].chain.attempts) :
                  LET at == walked[k].chain.attempts[a].at IN
                  /\ at + 1 <= Len(entries)
                  /\ HasCall(entries[at])
                  /\ FirstCallName(entries[at]) = FirstCallName(entries[walked[k].start])
                  /\ AllFailed(entries[at + 1])

\* witness for C32: a call followed by a result entry with one failed and
\* one successful result was walked as an ordinary entry
C32_MixedResultStartsNoChain ==
    /\ Len(walked) >= 1
    /\ walked[1].chain = NoChain
    /\ Len(entries) >= 2
    /\ HasCall(entries[1])
    /\ \E i, j \in 1..Len(entries[2].content) :
          /\ entries[2].content[i].type = "tool_result"
          /\ entries[2].content[i].is_error
          /\ entries[2].content[j].type = "tool_result"
          /\ ~entries[2].content[j].is_error


(* ------------------------------------------------------------------ *)
(* C33: a marker that is present while no compaction runs stays: no    *)
(* step of the daemon removes it or starts a compaction, every append  *)
(* that meets it waits or is abandoned once the retries are used up,   *)
(* the save of such a cycle still moves the cursor to the end of the   *)
(* range it read, and the artifact is not written.                     *)
(* ------------------------------------------------------------------ *)
\* the marker of p exists and no compaction owns it
StaleMarker(p) == lock[p] /\ ~Compacting(p)
\* no user acts in this step
NoMeddling == meddles' = meddles

\* C33: only a user removes a stale marker; while it is there the daemon
\* abandons every append, advances the cursor and leaves the artifact alone.
C33_StaleMarkerStays ==
    [][\A p \in Projects :
          (StaleMarker(p) /\ NoMeddling) =>
              /\ lock'[p]
              /\ \A d \in cycles' : ProjectOf(d.file) = p
                                        => d.pc \notin {"runReflector", "reflect", "release"}
              /\ artifact'[p] = artifact[p]
              /\ \A c \in ActiveCycles(p) :
                    /\ (Steps(c) /\ c.pc = "append")
                       => \A d \in After(c) :
                             /\ ~d.appended
                             /\ d.pc \in {"lockwait", "finish"}
                             /\ d.pc = "finish" => c.retries = LOCK_MAX_RETRIES
                    /\ (Saves(c) /\ c.pc = "finish")
                       => getFileOffset(stateFile'[p], c.file) = c.newOffset]_vars

\* witness for C33: the marker of the start is still there, a cycle that
\* began at an offset an earlier cycle stored has given up its append, and
\* the artifact is as init left it
C33_SecondCycleAbandoned ==
    /\ meddles = 0
    /\ StaleMarker("p1")
    /\ artifact["p1"] = <<TopHeader>>
    /\ \E c \in cycles : Abandoned(c) /\ c.offset > 0 /\ c.newOffset > c.offset


(* ------------------------------------------------------------------ *)
(* A log that its session writes piece by piece, read between the      *)
(* pieces.  The text of the log is a sequence of symbols of one byte   *)
(* each: the braces of the JSON objects, the newline, and a symbol     *)
(* for the text between two braces.                                    *)
(* ------------------------------------------------------------------ *)
\* the lines of the modelled log, in the order the session writes them
LogKeys == <<"c1", "r1", "c2", "r2">>
Bodies ==
    [c1 |-> Entry("assistant", "m1", FALSE,
                  <<ToolUse("Edit", [file_path |-> "f1", new_string |-> "x"])>>),
     r1 |-> Failure("EACCES: permission denied"),
     c2 |-> Entry("assistant", "m2", FALSE,
                  <<ToolUse("Edit", [file_path |-> "f1", new_string |-> "y"])>>),
     r2 |-> Failure("ENOENT: no such file")]

\* the line of an entry: {"type":...,"message":{...}}
JsonText(k) == <<"{", Bodies[k].type, "{", k, "}", "}">>

RECURSIVE LogOf(_)
\* the text of a log with the lines of `keys`, each ended by a newline
LogOf(keys) ==
    IF keys = <<>> THEN <<>>
    ELSE JsonText(Head(keys)) \o <<"\n">> \o LogOf(Tail(keys))

\* JSON.parse(line): an object is a text from an opening brace to the
\* brace that closes it; the objects inside an entry have no `type`
JsonParse(text) ==
    LET Depth(n) == Cardinality({i \in 1..n : text[i] = "{"})
                      - Cardinality({i \in 1..n : text[i] = "}"})
        object == /\ Len(text) >= 2
                  /\ text[1] = "{"
                  /\ text[Len(text)] = "}"
                  /\ Depth(Len(text)) = 0
                  /\ \A n \in 1..(Len(text) - 1) : Depth(n) > 0
        keys == {k \in DOMAIN Bodies : JsonText(k) = text}
    IN IF ~object THEN [BadLine EXCEPT !.bytes = Len(text)]
       ELSE IF keys # {} THEN [JsonLine(Bodies[CHOOSE k \in keys : TRUE]) EXCEPT !.bytes = Len(text)]
       ELSE [JsonLine(NoEntry) EXCEPT !.bytes = Len(text)]

RECURSIVE SplitLines(_)
\* raw.split('\n')
SplitLines(text) ==
    LET nl == {i \in 1..Len(text) : text[i] = "\n"}
    IN IF nl = {} THEN <<text>>
       ELSE <<SubSeq(text, 1, Min(nl) - 1)>>
                \o SplitLines(SubSeq(text, Min(nl) + 1, Len(text)))

\* the offset of the first byte of line j, and of the byte after its text
LineStart(j) == Len(LogOf(SubSeq(LogKeys, 1, j - 1)))
LineEnd(j) == LineStart(j) + Len(JsonText(LogKeys[j]))
\* the lines whose text is on disk in part when the file has n bytes
TornAt(n) == {j \in 1..Len(LogKeys) : LineStart(j) < n /\ n < LineEnd(j)}

\* the session flushes n more bytes of its log.  parseConversationDelta
\* runs to completion on the bytes of its one readSync and looks at the
\* file no more, so a flush during a call is the flush after the call
LogWrite(n) ==
    /\ raw.pc = "idle"
    /\ fileSize["a"] + n <= Len(raw.log)
    /\ fileSize' = [fileSize EXCEPT !["a"] = @ + n]
    /\ UNCHANGED <<parserVars, hotVars, projectDirs, seal, registered, truncated,
                   meddles, watchVars, processingQueue, activeWatchers, catchup,
                   cycles, running, stateFile, artifact, lock, histVars>>

\* lines 228-233 of processFile and lines 15-26 of parseConversationDelta:
\* the bytes from the stored offset to the end of the file, split
parseConversationDelta_read ==
    LET from == getFileOffset(loadState("p1"), "a")
        size == fileSize["a"]
        split == SplitLines(SubSeq(raw.log, from + 1, size))
    IN /\ raw.pc = "idle"
       /\ ~NothingNew(size, from)
       /\ raw' = [raw EXCEPT
              !.pc = "read",
              !.lines = [i \in 1..Len(split) |->
                            IF split[i] = <<>> THEN [BlankLine EXCEPT !.bytes = 0]
                            ELSE JsonParse(split[i])],
              !.fromOffset = from,
              !.size = size,
              !.torn = TornAt(size)]
       /\ UNCHANGED <<entries, idx, parts, walked, daemonVars>>

\* lines 240-244 or 279-280 of processFile: the new offset is stored and
\* saved, or the cycle throws before that
processFile_advance ==
    LET read == {entries[i] : i \in 1..Len(entries)} IN
    /\ raw.pc = "returned"
    /\ \/ /\ stateFile' = [stateFile EXCEPT
                 !["p1"] = updateFileOffset(@, "a", raw.newOffset, 0)]
          /\ raw' = [raw EXCEPT !.pc = "idle", !.lines = <<>>, !.torn = {},
                                !.lost = @ \cup raw.torn, !.seen = @ \cup read]
       \/ /\ UNCHANGED stateFile
          /\ raw' = [raw EXCEPT !.pc = "idle", !.lines = <<>>, !.torn = {},
                                !.seen = @ \cup read]
    /\ entries' = <<>>
    /\ idx' = 1
    /\ parts' = <<>>
    /\ walked' = <<>>
    /\ UNCHANGED <<watchVars, envVars, histVars, processingQueue, activeWatchers,
                   catchup, cycles, running, artifact, lock>>

InitSplit ==
    /\ registered = {"p1"}
    /\ fileSize = [f \in Files |-> 0]
    /\ dirty = [f \in Files |-> FALSE]
    /\ timeouts = {}
    /\ debounceTimers = EmptyMap
    /\ processingQueue = [p \in Projects |-> FALSE]
    /\ activeWatchers = [p \in Projects |-> FALSE]
    /\ catchup = [p \in Projects |-> [pc |-> "pending", queue |-> <<>>]]
    /\ cycles = {}
    /\ running = Idle
    /\ stateFile = [p \in Projects |-> DefaultState]
    /\ artifact = [p \in Projects |-> <<TopHeader>>]
    /\ lock = [p \in Projects |-> FALSE]
    /\ truncated = {}
    /\ meddles = 0
    /\ seal = NoSeal
    /\ projectDirs = Projects
    /\ configWatcher = "idle"
    /\ claudeDirs = Projects
    /\ burst = EmptyMap
    /\ lastRead = EmptyMap
    /\ consumed = EmptyMap
    /\ missed = {}
    /\ entries = <<>>
    /\ idx = 1
    /\ parts = <<>>
    /\ walked = <<>>
    /\ raw = [pc |-> "idle", lines |-> <<>>, fromOffset |-> 0, size |-> 0,
              newOffset |-> 0, log |-> LogOf(LogKeys),
              torn |-> {}, lost |-> {}, seen |-> {}]

NextSplit ==
    \/ \E n \in 1..Len(LogOf(LogKeys)) : LogWrite(n)
    \/ parseConversationDelta_read
    \/ NextDecode
    \/ processFile_advance

SplitSpec == InitSplit /\ [][NextSplit]_vars

(* ------------------------------------------------------------------ *)
(* C34: a line whose text was on disk only in part when a cycle read   *)
(* the log is skipped by that cycle; when the cycle stores its offset  *)
(* the bytes it read of the line are behind the cursor, the rest of    *)
(* the line does not parse in the cycle that reads it, and the entry   *)
(* of the line is among the entries of no cycle.                       *)
(* ------------------------------------------------------------------ *)
\* C34: the entry of a line read in part by a cycle that saved is never
\* decoded, neither by that cycle nor from the remainder by a later one.
C34_TornLineLost ==
    /\ \A j \in raw.lost :
          /\ Bodies[LogKeys[j]] \notin raw.seen
          /\ \A i \in 1..Len(entries) : entries[i] # Bodies[LogKeys[j]]
          /\ Offset("a") > LineStart(j)
    /\ raw.pc = "returned" => raw.newOffset = raw.size
    /\ raw.pc = "read" =>
          /\ \A j \in raw.torn :
                raw.fromOffset <= LineStart(j)
                    => raw.lines[Len(raw.lines)].kind = "bad"
          /\ \A j \in 1..Len(LogKeys) :
                (LineStart(j) < raw.fromOffset /\ raw.fromOffset < LineEnd(j)
                    /\ raw.size >= LineEnd(j))
                    => raw.lines[1].kind = "bad"

\* witness for C34: the third line was read in two parts by two cycles
\* that both saved, the cursor is at the end of the log, and the entries
\* before and after it were decoded
C34_LineReadInTwoParts ==
    /\ raw.pc = "idle"
    /\ 3 \in raw.lost
    /\ Offset("a") = Len(raw.log)
    /\ raw.seen = {Bodies["c1"], Bodies["r1"], Bodies["r2"]}


(* ------------------------------------------------------------------ *)
(* C35: a project is started once.  The change handler does not call   *)
(* watchProject for a project whose catch-up is in flight, and the     *)
(* watcher that the end of a catch-up registers is the first of its    *)
(* project.                                                            *)
(* ------------------------------------------------------------------ *)
\* the change handler runs in this step and calls watchProject(p)
HandlerStarts(p) ==
    /\ configWatcher = "changed"
    /\ configWatcher' = "idle"
    /\ p \in registered /\ ~activeWatchers[p] /\ p \in projectDirs /\ p \in claudeDirs
\* the catch-up of p ends in this step and its `.then` registers a watcher
CatchupEnds(p) == catchup[p].pc \in {"running", "awaiting"} /\ catchup'[p].pc = "done"

\* C35: at most one catch-up and at most one watcher per project, whatever
\* changes of projects.json arrive meanwhile.
C35_StartedOnce ==
    [][\A p \in Projects :
          /\ HandlerStarts(p) => catchup[p].pc \notin {"running", "awaiting"}
          /\ CatchupEnds(p) => ~activeWatchers[p]]_vars


(* ------------------------------------------------------------------ *)
(* C36: a project for which watchProject found the log directory and   *)
(* began the catch-up eventually has a watcher, also when a cycle of   *)
(* the catch-up throws.                                                *)
(* ------------------------------------------------------------------ *)
\* C36: every project whose catch-up was begun is eventually watched.
C36_EventuallyWatched ==
    \A p \in Projects :
        [](catchup[p].pc \in {"running", "awaiting"} => <>activeWatchers[p])


(* ------------------------------------------------------------------ *)
(* C37: a cycle writes the cursor record in its last step only.  When  *)
(* it ends without that write, the record is what it was, the offset   *)
(* of its file is the one it began from and the slot is released; the  *)
(* next read of the file begins at the same offset and covers the      *)
(* bytes read before, whether or not the artifact was appended to.     *)
(* ------------------------------------------------------------------ *)
\* the cycle c ends in this step
Ends(c) == Steps(c) /\ After(c) = {}

\* C37: a cycle that throws before its save leaves the record and frees
\* the slot, and the next cycle of the file reads from the same offset.
C37_ThrowKeepsCursor ==
    [][\A c \in cycles :
          LET p == ProjectOf(c.file)
              f == c.file
          IN /\ (Steps(c) /\ ~Ends(c)) => stateFile' = stateFile
             /\ Ends(c) => ~processingQueue'[p]
             /\ (Ends(c) /\ ~Saves(c) /\ c.pc # "stat")
                => /\ stateFile' = stateFile
                   /\ getFileOffset(stateFile'[p], f) = c.offset
             /\ (Reads(c) /\ f \in DOMAIN lastRead /\ ConsumedTo(f) # lastRead[f].to)
                => /\ lastRead'[f].from = lastRead[f].from
                   /\ f \notin truncated => lastRead'[f].to >= lastRead[f].to]_vars

\* witness for C37: file a is as it was at the start, so only the catch-up
\* read it; the artifact has one section more than the stored record
\* counts passes, so a cycle of file b appended and threw before its save;
\* nothing was ever stored for b, which has grown since, and a later cycle
\* that has appended nothing has read b from offset 0 again, to its new end
C37_RereadAfterAppend ==
    /\ meddles = 0
    /\ "a" \in DOMAIN fileSize /\ fileSize["a"] = 1024 /\ "a" \notin truncated
    /\ HasTopHeader(artifact["p1"])
    /\ Len(artifact["p1"]) = stateFile["p1"].totalObserverPasses + 2
    /\ "b" \notin DOMAIN stateFile["p1"].files
    /\ \E c \in cycles :
          /\ c.file = "b"
          /\ c.pc = "append"
          /\ ~c.appended
          /\ c.offset = 0
          /\ lastRead["b"] = [from |-> 0, to |-> 2048]


(* ------------------------------------------------------------------ *)
(* C38: an assistant entry of text and thinking blocks only that       *)
(* follows a failed attempt is taken by the chain: the end index of    *)
(* the chain is behind it, whether or not a retry follows, and the     *)
(* walk never formats it.                                              *)
(* ------------------------------------------------------------------ *)
\* an assistant entry without a call
OnlyCommentary(e) ==
    /\ e.type = "assistant"
    /\ \A k \in 1..Len(e.content) : e.content[k].type \in {"text", "thinking"}

\* C38: commentary after a failed attempt lies inside the chain's span and
\* is the start of no iteration of the walk.
C38_CommentaryConsumed ==
    /\ \A k \in 1..Len(walked) :
          walked[k].chain # NoChain =>
              LET chain == walked[k].chain
                  last == chain.attempts[Len(chain.attempts)].at
              IN /\ \A j \in (last + 2)..(chain.endIndex - 1) : OnlyCommentary(entries[j])
                 /\ chain.endIndex <= Len(entries)
                        => ~OnlyCommentary(entries[chain.endIndex])
                 /\ \A m \in 1..Len(walked) :
                        walked[m].start \notin (walked[k].start + 1)..(chain.endIndex - 1)
    /\ \A j \in 3..Len(entries) :
          (OnlyCommentary(entries[j]) /\ AllFailed(entries[j - 1]) /\ HasCall(entries[j - 2]))
              => \A m \in 1..Len(walked) : walked[m].start # j

\* witness for C38: one failed attempt, commentary, then a call of another
\* tool; the chain of the one attempt ends at that call, the walk is over
\* and no line of the text is an `[Assistant]:` line
C38_CommentaryAfterSingleFailure ==
    /\ idx > Len(entries)
    /\ Len(entries) >= 4
    /\ Len(walked) >= 1
    /\ walked[1].start = 1
    /\ Len(walked[1].chain.attempts) = 1
    /\ entries[3] = Commentary
    /\ walked[1].chain.endIndex = 4
    /\ HasCall(entries[4])
    /\ FirstCallName(entries[4]) # FirstCallName(entries[1])
    /\ \A l \in 1..Len(parts) : parts[l].tag # "Assistant"


(* ------------------------------------------------------------------ *)
(* C39: the walk over the entries ends.  Every iteration moves the     *)
(* index forward and never beyond the place after the last entry, the  *)
(* end index of a chain is at least two after its start, each          *)
(* iteration starts where the one before it ended, and the index does  *)
(* get past the last entry.                                            *)
(* ------------------------------------------------------------------ *)
\* parseConversationDelta runs to its return: no step of it waits
DecodeLive == DecodeSpec /\ WF_vars(NextDecode)

\* C39: the walk index strictly increases, stays within the sequence, every
\* entry belongs to exactly one iteration, and the walk reaches the end.
C39_WalkTerminates ==
    /\ [][walked' # walked =>
             /\ idx' > idx
             /\ idx' <= Len(entries) + 1
             /\ Len(walked') = Len(walked) + 1
             /\ walked'[Len(walked')].start = idx
             /\ LET chain == walked'[Len(walked')].chain
                IN IF chain = NoChain THEN idx' = idx + 1
                   ELSE /\ idx' = chain.endIndex
                        /\ chain.endIndex >= idx + 2
                        /\ chain.endIndex <= Len(entries) + 1]_vars
    /\ <>(raw.pc = "returned" /\ idx = Len(entries) + 1)

\* witness for C39: a walk that is over, in which one iteration consumed
\* one entry and a chain ended behind the last entry
C39_WalkOverWithChain ==
    /\ raw.pc = "returned"
    /\ idx = Len(entries) + 1
    /\ Len(walked) >= 2
    /\ walked[1].chain = NoChain
    /\ walked[Len(walked)].chain # NoChain
    /\ walked[Len(walked)].chain.endIndex = Len(entries) + 1
====
